---- MODULE Spec2Model ----
(***************************************************************************)
(* A model of the LCA tool's backend: the emission-factor store, the       *)
(* POST /api/lca/calculate pipeline (lookup, impact arithmetic, totals,    *)
(* category rollup, recommendations, scores, optional persistence) and     *)
(* the manual data-entry route with enrichMaterialData.                    *)
(*                                                                         *)
(* Numbers.  JavaScript numbers are modelled in fixed point.  Quantities,  *)
(* energy add-ons and distances are whole numbers; emission factors,       *)
(* impacts and totals are integers counting thousandths (Milli); the       *)
(* unrounded scores count 1/ScoreScale.  With whole-number inputs and the  *)
(* seeded factors (at most two decimals) every product, sum and quotient   *)
(* of the pipeline is exact in this representation.                        *)
(*                                                                         *)
(* Strings.  Material types are sequences of one-character strings, so     *)
(* that LOWER(), LIKE '%x%', trim() and parseFloat() are computed and not  *)
(* assumed.  Categories, units and assessment names are never taken apart  *)
(* by the code and stay plain strings.                                     *)
(***************************************************************************)
EXTENDS Integers, Sequences, FiniteSets, TLC

VARIABLES
    emission_factors,      \* table emission_factors, rows in rowid order
    lca_assessments,       \* table lca_assessments, rows in rowid order
    assessment_materials,  \* table assessment_materials, rows in rowid order
    nextId,                \* AUTOINCREMENT counter of lca_assessments
    pc,                    \* "idle" | "responded"
    request,               \* the request being answered: route, body, injected fault
    response               \* the HTTP response sent for it

vars == <<emission_factors, lca_assessments, assessment_materials, nextId,
          pc, request, response>>

(***************************************************************************)
(* Bounds of the model.                                                    *)
(***************************************************************************)
MaxMaterials == 2       \* longest materials list of an unnamed request
MaxSavedMaterials == 1  \* longest materials list of a named request
MaxAssessments == 2     \* assessments the store ever creates

(***************************************************************************)
(* Fixed point.                                                            *)
(***************************************************************************)
Milli == 10 * 100
Centi(n) == n * (Milli \div 100)
ScoreScale == 30 * Milli

Max(a, b) == IF a >= b THEN a ELSE b

\* Math.round(x) for x counted in 1/scale: floor(x + 0.5), a whole number.
MathRound(x, scale) == (2 * x + scale) \div (2 * scale)

\* Math.round(x * 100) / 100 for x in thousandths; the result in thousandths.
Round2(x) == 10 * MathRound(x, 10)

(***************************************************************************)
(* Characters, in ASCII order.                                             *)
(***************************************************************************)
Digits == <<"0", "1", "2", "3", "4", "5", "6", "7", "8", "9">>
UpperCase == <<"A", "B", "C", "D", "E", "F", "G", "H", "I", "J", "K", "L", "M",
               "N", "O", "P", "Q", "R", "S", "T", "U", "V", "W", "X", "Y", "Z">>
LowerCase == <<"a", "b", "c", "d", "e", "f", "g", "h", "i", "j", "k", "l", "m",
               "n", "o", "p", "q", "r", "s", "t", "u", "v", "w", "x", "y", "z">>
Alphabet == <<" ", "-">> \o Digits \o UpperCase \o LowerCase

Range(s) == {s[i] : i \in DOMAIN s}

IndexIn(s, c) == CHOOSE i \in DOMAIN s : s[i] = c

CharCode == [c \in Range(Alphabet) |-> IndexIn(Alphabet, c)]

LowerOf == [c \in Range(Alphabet) |->
              IF c \in Range(UpperCase) THEN LowerCase[IndexIn(UpperCase, c)] ELSE c]

\* SQL LOWER() / the case folding of LIKE, on ASCII text.
Lower(s) == [i \in DOMAIN s |-> LowerOf[s[i]]]

\* lowered haystack contains lowered needle: LOWER(h) LIKE LOWER('%n%')
Contains(h, n) ==
    LET lh == Lower(h)
        ln == Lower(n)
    IN  \E i \in 0..(Len(lh) - Len(ln)) : SubSeq(lh, i + 1, i + Len(ln)) = ln

\* a < b in the BINARY collation of ORDER BY material_type
RECURSIVE StrLess(_, _)
StrLess(a, b) ==
    IF b = <<>> THEN FALSE
    ELSE IF a = <<>> THEN TRUE
    ELSE IF Head(a) = Head(b) THEN StrLess(Tail(a), Tail(b))
    ELSE CharCode[Head(a)] < CharCode[Head(b)]

(***************************************************************************)
(* JSON values of the numeric fields and their coercions.                  *)
(***************************************************************************)
RNum(n) == [k |-> "num", n |-> n, s |-> <<>>]
RStr(s) == [k |-> "str", n |-> 0, s |-> s]
RUndef == [k |-> "undef", n |-> 0, s |-> <<>>]

\* a JavaScript number that may be NaN
Num(v) == [nan |-> FALSE, v |-> v]
NaN == [nan |-> TRUE, v |-> 0]

RECURSIVE SkipSpaces(_)
SkipSpaces(s) == IF s # <<>> /\ Head(s) = " " THEN SkipSpaces(Tail(s)) ELSE s

RECURSIVE LeadingDigits(_)
LeadingDigits(s) ==
    IF s # <<>> /\ Head(s) \in Range(Digits)
    THEN <<Head(s)>> \o LeadingDigits(Tail(s))
    ELSE <<>>

RECURSIVE DigitsValue(_, _)
DigitsValue(ds, acc) ==
    IF ds = <<>> THEN acc
    ELSE DigitsValue(Tail(ds), 10 * acc + (IndexIn(Digits, Head(ds)) - 1))

\* parseFloat of a string: leading blanks, an optional sign, the longest
\* digit prefix; NaN when no digit follows.
parseFloatStr(s) ==
    LET t == SkipSpaces(s)
        neg == t # <<>> /\ Head(t) = "-"
        body == IF neg THEN Tail(t) ELSE t
        ds == LeadingDigits(body)
    IN  IF ds = <<>> THEN NaN
        ELSE Num(IF neg THEN 0 - DigitsValue(ds, 0) ELSE DigitsValue(ds, 0))

parseFloat(raw) ==
    CASE raw.k = "num" -> Num(raw.n)
      [] raw.k = "str" -> parseFloatStr(raw.s)
      [] OTHER -> NaN

\* x || 0 for a number x
OrZero(x) == IF x.nan \/ x.v = 0 THEN 0 ELSE x.v

\* truthiness of a JSON value
Truthy(raw) ==
    CASE raw.k = "num" -> raw.n # 0
      [] raw.k = "str" -> raw.s # <<>>
      [] OTHER -> FALSE

(***************************************************************************)
(* The seeded emission factors.                                            *)
(***************************************************************************)
Factor(type, category, co2, energy, transport) ==
    [material_type |-> type, category |-> category, co2_factor |-> co2,
     energy_factor |-> energy, transport_factor |-> transport, unit |-> "kg"]

defaultFactors == <<
    Factor(<<"S","t","e","e","l">>, "Metals", Centi(185), Centi(2400), Centi(10)),
    Factor(<<"A","l","u","m","i","n","u","m">>, "Metals", Centi(824), Centi(15400), Centi(10)),
    Factor(<<"C","o","p","p","e","r">>, "Metals", Centi(295), Centi(4200), Centi(10)),
    Factor(<<"P","E","T"," ","P","l","a","s","t","i","c">>, "Plastics", Centi(225), Centi(7600), Centi(5)),
    Factor(<<"H","D","P","E">>, "Plastics", Centi(195), Centi(7670), Centi(5)),
    Factor(<<"P","V","C">>, "Plastics", Centi(241), Centi(5750), Centi(5)),
    Factor(<<"C","o","n","c","r","e","t","e">>, "Construction", Centi(13), Centi(100), Centi(2)),
    Factor(<<"B","r","i","c","k">>, "Construction", Centi(24), Centi(300), Centi(3)),
    Factor(<<"W","o","o","d">>, "Construction", Centi(-90), Centi(250), Centi(4)),
    Factor(<<"G","l","a","s","s">>, "Glass", Centi(85), Centi(1500), Centi(8)),
    Factor(<<"C","e","r","a","m","i","c">>, "Ceramics", Centi(64), Centi(1200), Centi(6)),
    Factor(<<"C","o","t","t","o","n">>, "Textiles", Centi(589), Centi(5500), Centi(3)),
    Factor(<<"P","o","l","y","e","s","t","e","r">>, "Textiles", Centi(952), Centi(12500), Centi(3)),
    Factor(<<"S","i","l","i","c","o","n">>, "Electronics", Centi(130), Centi(23000), Centi(10)),
    Factor(<<"G","o","l","d">>, "Electronics", Centi(1280000), Centi(24000000), Centi(20)),
    Factor(<<"P","a","p","e","r">>, "Paper", Centi(93), Centi(2000), Centi(4)),
    Factor(<<"C","a","r","d","b","o","a","r","d">>, "Paper", Centi(70), Centi(1500), Centi(4)) >>

\* the hardcoded factors of an unknown material
unknownFactor ==
    [material_type |-> <<>>, category |-> "Unknown", co2_factor |-> Milli,
     energy_factor |-> 10 * Milli, transport_factor |-> Centi(5), unit |-> "kg"]

(***************************************************************************)
(* Statements against emission_factors.  A result is <<row>> or <<>>       *)
(* (database.get returning undefined).                                     *)
(***************************************************************************)
\* SELECT * FROM emission_factors WHERE LOWER(material_type) = LOWER(?)
getExact(table, type) ==
    LET hits == {i \in DOMAIN table : Lower(table[i].material_type) = Lower(type)}
    IN  IF hits = {} THEN <<>>
        ELSE <<table[CHOOSE i \in hits : \A j \in hits : i <= j]>>

\* SELECT * FROM emission_factors WHERE LOWER(material_type) LIKE LOWER(?)
\* ORDER BY material_type LIMIT 1, with ? = '%' + type + '%'
getLike(table, type) ==
    LET hits == {i \in DOMAIN table : Contains(table[i].material_type, type)}
        first == CHOOSE i \in hits : \A j \in hits :
                    \/ StrLess(table[i].material_type, table[j].material_type)
                    \/ (table[i].material_type = table[j].material_type /\ i <= j)
    IN  IF hits = {} THEN <<>> ELSE <<table[first]>>

(***************************************************************************)
(* POST /api/lca/calculate: the loop over the materials.                   *)
(***************************************************************************)
Warning(text, type) == [text |-> text, material_type |-> type]

calcFactor_noWarning(table, material) ==
    LET found == getExact(table, material.material_type)
    IN  IF found = <<>> THEN [factor |-> unknownFactor, unknown |-> FALSE]
        ELSE [factor |-> found[1], unknown |-> FALSE]

\* the emission factor the calculate route uses, and whether it is the default
calcFactor(table, material) ==
    LET found == getExact(table, material.material_type)
    IN  IF found = <<>> THEN [factor |-> unknownFactor, unknown |-> TRUE]
        ELSE [factor |-> found[1], unknown |-> FALSE]

impacts_noEnergyAddOn(material, emissionFactor, quantity, energyConsumption, transportDistance) ==
    [material_type |-> material.material_type,
     category |-> emissionFactor.category,
     quantity |-> quantity,
     unit |-> IF material.unit = "" THEN "kg" ELSE material.unit,
     co2_impact |-> quantity * emissionFactor.co2_factor,
     energy_impact |-> quantity * emissionFactor.energy_factor,
     transport_impact |->
         transportDistance * emissionFactor.transport_factor * quantity]

\* the impacts of one material, from its coerced numbers
impacts(material, emissionFactor, quantity, energyConsumption, transportDistance) ==
    [material_type |-> material.material_type,
     category |-> emissionFactor.category,
     quantity |-> quantity,
     unit |-> IF material.unit = "" THEN "kg" ELSE material.unit,
     co2_impact |-> quantity * emissionFactor.co2_factor,
     energy_impact |-> quantity * emissionFactor.energy_factor
                          + energyConsumption * Milli,
     transport_impact |->
         transportDistance * emissionFactor.transport_factor * quantity]

\* total_impact: co2Impact + energyImpact + transportImpact
withTotal(m) ==
    [material_type |-> m.material_type, category |-> m.category,
     quantity |-> m.quantity, unit |-> m.unit,
     co2_impact |-> m.co2_impact, energy_impact |-> m.energy_impact,
     transport_impact |-> m.transport_impact,
     total_impact |-> m.co2_impact + m.energy_impact + m.transport_impact]

\* the materialBreakdown entry of one material: parseFloat(...) || 0 on the
\* three numeric fields, then the impact arithmetic
materialImpact(material, emissionFactor) ==
    withTotal(impacts(material, emissionFactor,
                      OrZero(parseFloat(material.quantity)),
                      OrZero(parseFloat(material.energy_consumption)),
                      OrZero(parseFloat(material.transport_distance))))

\* categoryBreakdown[category] += ..., keys kept in insertion order
addToCategory(categoryBreakdown, m) ==
    IF \E i \in DOMAIN categoryBreakdown : categoryBreakdown[i].category = m.category
    THEN [i \in DOMAIN categoryBreakdown |->
            IF categoryBreakdown[i].category = m.category
            THEN [category |-> m.category,
                  co2 |-> categoryBreakdown[i].co2 + m.co2_impact,
                  energy |-> categoryBreakdown[i].energy + m.energy_impact,
                  materials |-> categoryBreakdown[i].materials + m.quantity,
                  count |-> categoryBreakdown[i].count + 1]
            ELSE categoryBreakdown[i]]
    ELSE Append(categoryBreakdown,
                [category |-> m.category, co2 |-> m.co2_impact,
                 energy |-> m.energy_impact, materials |-> m.quantity, count |-> 1])

accumulate_noTransport(acc, m, unknown) ==
    [totalCO2 |-> acc.totalCO2 + m.co2_impact,
     totalEnergy |-> acc.totalEnergy + m.energy_impact,
     totalMaterials |-> acc.totalMaterials + m.quantity,
     materialBreakdown |-> Append(acc.materialBreakdown, m),
     categoryBreakdown |-> addToCategory(acc.categoryBreakdown, m),
     warnings |-> IF unknown
                  THEN Append(acc.warnings, Warning("Unknown material", m.material_type))
                  ELSE acc.warnings]

\* the totals, breakdowns and warnings after one more material
accumulate(acc, m, unknown) ==
    [totalCO2 |-> acc.totalCO2 + m.co2_impact + m.transport_impact \div 10,
     totalEnergy |-> acc.totalEnergy + m.energy_impact,
     totalMaterials |-> acc.totalMaterials + m.quantity,
     materialBreakdown |-> Append(acc.materialBreakdown, m),
     categoryBreakdown |-> addToCategory(acc.categoryBreakdown, m),
     warnings |-> IF unknown
                  THEN Append(acc.warnings, Warning("Unknown material", m.material_type))
                  ELSE acc.warnings]

withFactor(acc, material, ef) ==
    accumulate(acc, materialImpact(material, ef.factor), ef.unknown)

\* one iteration of the loop
calcStep(table, acc, material) ==
    withFactor(acc, material, calcFactor(table, material))

calcInit ==
    [totalCO2 |-> 0, totalEnergy |-> 0, totalMaterials |-> 0,
     materialBreakdown |-> <<>>, categoryBreakdown |-> <<>>, warnings |-> <<>>]

RECURSIVE calcLoop(_, _, _)
calcLoop(table, acc, materials) ==
    IF materials = <<>> THEN acc
    ELSE calcLoop(table, calcStep(table, acc, Head(materials)), Tail(materials))

(***************************************************************************)
(* generateRecommendations.                                                *)
(***************************************************************************)
\* insert x = [key, item] behind every element whose key is not smaller
RECURSIVE insertDesc(_, _)
insertDesc(sorted, x) ==
    IF sorted = <<>> THEN <<x>>
    ELSE IF x.key > Head(sorted).key THEN <<x>> \o sorted
    ELSE <<Head(sorted)>> \o insertDesc(Tail(sorted), x)

\* Array.prototype.sort with the comparator (a, b) => b.key - a.key: a stable
\* sort, descending
RECURSIVE sortDesc(_)
sortDesc(keyed) ==
    IF keyed = <<>> THEN <<>>
    ELSE insertDesc(sortDesc(SubSeq(keyed, 1, Len(keyed) - 1)), keyed[Len(keyed)])

\* a sort that puts the later of two equal impacts first
sortMaterials_lastWins(materialBreakdown) ==
    LET n == Len(materialBreakdown)
        sorted == sortDesc([i \in 1..n |->
                     [key |-> materialBreakdown[n + 1 - i].total_impact,
                      item |-> materialBreakdown[n + 1 - i]]])
    IN  [i \in DOMAIN sorted |-> sorted[i].item]

\* materialBreakdown.sort((a, b) => b.total_impact - a.total_impact): sorts the
\* array in place and returns it
sortMaterials(materialBreakdown) ==
    LET sorted == sortDesc([i \in DOMAIN materialBreakdown |->
                     [key |-> materialBreakdown[i].total_impact,
                      item |-> materialBreakdown[i]]])
    IN  [i \in DOMAIN sorted |-> sorted[i].item]

\* Object.entries(categoryBreakdown).sort((a, b) => b[1].co2 - a[1].co2)
sortCategories(categoryBreakdown) ==
    LET sorted == sortDesc([i \in DOMAIN categoryBreakdown |->
                     [key |-> categoryBreakdown[i].co2,
                      item |-> categoryBreakdown[i]]])
    IN  [i \in DOMAIN sorted |-> sorted[i].item]

RECURSIVE sumEnergy(_)
sumEnergy(ms) == IF ms = <<>> THEN 0 ELSE Head(ms).energy_impact + sumEnergy(Tail(ms))

Recommendation(type, priority, action, material, category, amount) ==
    [type |-> type, priority |-> priority, action |-> action,
     material |-> material, category |-> category, amount |-> amount]

generalRecommendation ==
    Recommendation("general", "low", "circular_economy", <<>>, "", 0)

thresholdRecommendations_firstMatch(materialBreakdown, categoryBreakdown) ==
    LET sortedMaterials == sortMaterials(materialBreakdown)
        sortedCategories == sortCategories(categoryBreakdown)
        totalEnergy == sumEnergy(sortedMaterials)
        highTransportMaterials ==
            SelectSeq(sortedMaterials, LAMBDA m : m.transport_impact > 10 * Milli)
    IN  IF sortedMaterials # <<>> /\ sortedMaterials[1].total_impact > 100 * Milli
        THEN <<Recommendation("high_impact", "high", "material_substitution",
                              sortedMaterials[1].material_type, "",
                              MathRound(sortedMaterials[1].total_impact, Milli))>>
        ELSE IF sortedCategories # <<>> /\ sortedCategories[1].co2 > 50 * Milli
        THEN <<Recommendation("category_optimization", "medium", "category_review",
                              <<>>, sortedCategories[1].category,
                              MathRound(sortedCategories[1].co2, Milli))>>
        ELSE IF totalEnergy > 1000 * Milli
        THEN <<Recommendation("energy_efficiency", "medium", "energy_optimization",
                              <<>>, "", MathRound(totalEnergy, Milli))>>
        ELSE IF Len(highTransportMaterials) > 0
        THEN <<Recommendation("transport_optimization", "low",
                              "transport_optimization", <<>>, "",
                              Len(highTransportMaterials))>>
        ELSE <<>>

\* the recommendations of the four threshold rules, in the order they are pushed
thresholdRecommendations(materialBreakdown, categoryBreakdown) ==
    LET sortedMaterials == sortMaterials(materialBreakdown)
        sortedCategories == sortCategories(categoryBreakdown)
        totalEnergy == sumEnergy(sortedMaterials)
        highTransportMaterials ==
            SelectSeq(sortedMaterials, LAMBDA m : m.transport_impact > 10 * Milli)
        highImpact ==
            IF sortedMaterials # <<>> /\ sortedMaterials[1].total_impact > 100 * Milli
            THEN <<Recommendation("high_impact", "high", "material_substitution",
                                  sortedMaterials[1].material_type, "",
                                  MathRound(sortedMaterials[1].total_impact, Milli))>>
            ELSE <<>>
        categoryOptimization ==
            IF sortedCategories # <<>> /\ sortedCategories[1].co2 > 50 * Milli
            THEN <<Recommendation("category_optimization", "medium", "category_review",
                                  <<>>, sortedCategories[1].category,
                                  MathRound(sortedCategories[1].co2, Milli))>>
            ELSE <<>>
        energyEfficiency ==
            IF totalEnergy > 1000 * Milli
            THEN <<Recommendation("energy_efficiency", "medium", "energy_optimization",
                                  <<>>, "", MathRound(totalEnergy, Milli))>>
            ELSE <<>>
        transportOptimization ==
            IF Len(highTransportMaterials) > 0
            THEN <<Recommendation("transport_optimization", "low",
                                  "transport_optimization", <<>>, "",
                                  Len(highTransportMaterials))>>
            ELSE <<>>
    IN  highImpact \o categoryOptimization \o energyEfficiency
            \o transportOptimization

generateRecommendations_generalFirst(materialBreakdown, categoryBreakdown) ==
    <<generalRecommendation>>
        \o thresholdRecommendations(materialBreakdown, categoryBreakdown)

\* the recommendations returned; the caller's materialBreakdown is left sorted
generateRecommendations(materialBreakdown, categoryBreakdown) ==
    thresholdRecommendations(materialBreakdown, categoryBreakdown)
        \o <<generalRecommendation>>

(***************************************************************************)
(* calculateEnvironmentalScores and getEnvironmentalGrade.  Unrounded      *)
(* scores count 1/ScoreScale; co2 and energy arrive in thousandths,        *)
(* materials in whole kilograms.                                           *)
(***************************************************************************)
ToScore(x) == x * (ScoreScale \div Milli)

co2Score_noFloor(co2) == 100 * ScoreScale - ToScore(co2) \div 10

\* Math.max(0, 100 - (co2 / 10))
co2Score(co2) == Max(0, 100 * ScoreScale - ToScore(co2) \div 10)

\* Math.max(0, 100 - (energy / 100))
energyScore(energy) == Max(0, 100 * ScoreScale - ToScore(energy \div 100))

\* Math.max(0, 100 - (materials / 50))
materialScore(materials) == Max(0, 100 * ScoreScale - materials * (ScoreScale \div 50))

overallScore(co2, energy, materials) ==
    (co2Score(co2) + energyScore(energy) + materialScore(materials)) \div 3

getEnvironmentalGrade_exclusive(score) ==
    IF score > 90 * ScoreScale THEN "A+"
    ELSE IF score > 80 * ScoreScale THEN "A"
    ELSE IF score > 70 * ScoreScale THEN "B"
    ELSE IF score > 60 * ScoreScale THEN "C"
    ELSE IF score > 50 * ScoreScale THEN "D"
    ELSE "F"

getEnvironmentalGrade(score) ==
    IF score >= 90 * ScoreScale THEN "A+"
    ELSE IF score >= 80 * ScoreScale THEN "A"
    ELSE IF score >= 70 * ScoreScale THEN "B"
    ELSE IF score >= 60 * ScoreScale THEN "C"
    ELSE IF score >= 50 * ScoreScale THEN "D"
    ELSE "F"

calculateEnvironmentalScores(co2, energy, materials) ==
    [overall |-> MathRound(overallScore(co2, energy, materials), ScoreScale),
     co2 |-> MathRound(co2Score(co2), ScoreScale),
     energy |-> MathRound(energyScore(energy), ScoreScale),
     materials |-> MathRound(materialScore(materials), ScoreScale),
     grade |-> getEnvironmentalGrade(overallScore(co2, energy, materials))]

(***************************************************************************)
(* category_breakdown[...].percentage                                      *)
(***************************************************************************)
Abs(x) == IF x < 0 THEN 0 - x ELSE x

\* a * 10^digits = q * b + r with 0 <= r < b, for a >= 0 and b > 0
RECURSIVE LongDiv(_, _, _)
LongDiv(a, b, digits) ==
    IF digits = 0 THEN [q |-> a \div b, r |-> a % b]
    ELSE LET p == LongDiv(a, b, digits - 1)
         IN  [q |-> 10 * p.q + (10 * p.r) \div b, r |-> (10 * p.r) % b]

\* Math.round((co2 / totalCO2 * 100) * 100) / 100, in thousandths when finite
percentage(co2, totalCO2) ==
    IF totalCO2 = 0
    THEN [special |-> IF co2 = 0 THEN "NaN"
                      ELSE IF co2 > 0 THEN "Infinity" ELSE "-Infinity",
          v |-> 0]
    ELSE LET d == LongDiv(Abs(co2), Abs(totalCO2), 4)
             negative == (co2 < 0) # (totalCO2 < 0)
         IN  [special |-> "",
              v |-> IF negative
                    THEN 0 - 10 * (d.q + IF 2 * d.r > Abs(totalCO2) THEN 1 ELSE 0)
                    ELSE 10 * (d.q + IF 2 * d.r >= Abs(totalCO2) THEN 1 ELSE 0)]

(***************************************************************************)
(* POST /api/lca/calculate.  The database statements of one request are    *)
(* numbered in execution order (the lookups, the assessment insert, the    *)
(* material inserts); fault = k makes the k-th statement throw, 0 none.    *)
(***************************************************************************)
NoId == 0   \* assessment_id: null

assessmentRow(id, name, acc) ==
    [id |-> id, name |-> name, description |-> "",
     total_co2 |-> acc.totalCO2, total_energy |-> acc.totalEnergy,
     total_materials |-> acc.totalMaterials]

materialRow(id, m) ==
    [assessment_id |-> id, material_type |-> m.material_type,
     quantity |-> m.quantity, unit |-> m.unit,
     energy_consumption |-> 0, transport_distance |-> 0,
     co2_impact |-> m.co2_impact, energy_impact |-> m.energy_impact,
     category |-> m.category]

\* the try block that saves a named assessment; failedAt = 0: nothing throws,
\* 1: the assessment insert throws, j + 1: the j-th material insert throws
saveAssessment(id, name, acc, materialBreakdown, failedAt) ==
    LET written == IF failedAt = 0 THEN Len(materialBreakdown) ELSE failedAt - 2
    IN  IF failedAt = 1
        THEN [assessmentId |-> NoId, assessments |-> <<>>, materials |-> <<>>,
              failed |-> TRUE]
        ELSE [assessmentId |-> id,
              assessments |-> <<assessmentRow(id, name, acc)>>,
              materials |-> [j \in 1..written |-> materialRow(id, materialBreakdown[j])],
              failed |-> failedAt # 0]

notSaved == [assessmentId |-> NoId, assessments |-> <<>>, materials |-> <<>>,
             failed |-> FALSE]

categoryEntry(c, totalCO2) ==
    [category |-> c.category, co2 |-> c.co2, energy |-> c.energy,
     materials |-> c.materials, count |-> c.count,
     percentage |-> percentage(c.co2, totalCO2)]

\* a response that counts the saved assessments into the summary
calcResponse_storeCount(n, acc, materialBreakdown, recommendations, scores, saved) ==
    [status |-> 200,
     assessment_id |-> saved.assessmentId,
     summary |-> [total_co2_kg |-> Round2(acc.totalCO2),
                  total_energy_mj |-> Round2(acc.totalEnergy),
                  total_materials_kg |-> Round2(acc.totalMaterials * Milli),
                  material_count |-> n + Len(lca_assessments)],
     scores |-> scores,
     material_breakdown |-> materialBreakdown,
     category_breakdown |->
         [i \in DOMAIN acc.categoryBreakdown |->
            categoryEntry(acc.categoryBreakdown[i], acc.totalCO2)],
     recommendations |-> recommendations,
     warnings |-> IF saved.failed
                  THEN Append(acc.warnings, Warning("Assessment not saved", <<>>))
                  ELSE acc.warnings]

\* res.json({...})
calcResponse(n, acc, materialBreakdown, recommendations, scores, saved) ==
    [status |-> 200,
     assessment_id |-> saved.assessmentId,
     summary |-> [total_co2_kg |-> Round2(acc.totalCO2),
                  total_energy_mj |-> Round2(acc.totalEnergy),
                  total_materials_kg |-> Round2(acc.totalMaterials * Milli),
                  material_count |-> n],
     scores |-> scores,
     material_breakdown |-> materialBreakdown,
     category_breakdown |->
         [i \in DOMAIN acc.categoryBreakdown |->
            categoryEntry(acc.categoryBreakdown[i], acc.totalCO2)],
     recommendations |-> recommendations,
     warnings |-> IF saved.failed
                  THEN Append(acc.warnings, Warning("Assessment not saved", <<>>))
                  ELSE acc.warnings]

answered(n, acc, materialBreakdown, recommendations, scores, saved) ==
    [response |-> calcResponse(n, acc, materialBreakdown, recommendations, scores, saved),
     saved |-> saved]

afterRecommendations_alwaysSave(id, body, failedAt, acc, materialBreakdown, recommendations) ==
    answered(Len(body.materials), acc, materialBreakdown, recommendations,
             calculateEnvironmentalScores(acc.totalCO2, acc.totalEnergy,
                                          acc.totalMaterials),
             saveAssessment(id, body.assessment_name, acc, materialBreakdown,
                            failedAt))

\* the handler after generateRecommendations has sorted materialBreakdown
afterRecommendations(id, body, failedAt, acc, materialBreakdown, recommendations) ==
    answered(Len(body.materials), acc, materialBreakdown, recommendations,
             calculateEnvironmentalScores(acc.totalCO2, acc.totalEnergy,
                                          acc.totalMaterials),
             IF body.assessment_name = "" THEN notSaved
             ELSE saveAssessment(id, body.assessment_name, acc, materialBreakdown,
                                 failedAt))

\* the handler after the loop over the materials
afterLoop(id, body, failedAt, acc) ==
    afterRecommendations(id, body, failedAt, acc,
        sortMaterials(acc.materialBreakdown),
        generateRecommendations(acc.materialBreakdown, acc.categoryBreakdown))

\* Array.isArray(materials): the body carries either an array or some other
\* JSON value ("undefined" when the key is absent), whose materials field is
\* then kept empty
isArray(body) == body.materialsKind = "array"

\* what the handler answers and writes
calculate(table, id, body, fault) ==
    IF ~isArray(body) \/ body.materials = <<>>
    THEN [response |-> [status |-> 400, error |-> "Materials array is required"],
          saved |-> notSaved]
    ELSE IF fault \in 1..Len(body.materials)
    THEN [response |-> [status |-> 500, error |-> "Error calculating LCA"],
          saved |-> notSaved]
    ELSE afterLoop(id, body, IF fault = 0 THEN 0 ELSE fault - Len(body.materials),
                   calcLoop(table, calcInit, body.materials))

\* the number of database statements a calculate request issues when none fails
calcStatements(body) ==
    IF ~isArray(body) \/ body.materials = <<>> THEN 0
    ELSE IF body.assessment_name = "" THEN Len(body.materials)
    ELSE 2 * Len(body.materials) + 1

\* the handler's effects: the response sent and the rows written
Handled(out) ==
    /\ response' = out.response
    /\ lca_assessments' = lca_assessments \o out.saved.assessments
    /\ assessment_materials' = assessment_materials \o out.saved.materials
    /\ nextId' = nextId + Len(out.saved.assessments)

Calculate(body, fault) ==
    /\ pc = "idle"
    /\ fault \in 0..calcStatements(body)
    /\ body.assessment_name # "" => nextId <= MaxAssessments
    /\ Handled(calculate(emission_factors, nextId, body, fault))
    /\ request' = [route |-> "calculate", body |-> body, fault |-> fault]
    /\ pc' = "responded"
    /\ UNCHANGED emission_factors

\* the client takes the response; the next request can be sent
ClientReceive ==
    /\ pc = "responded"
    /\ pc' = "idle"
    /\ request' = [route |-> "none"]
    /\ response' = [status |-> 0]
    /\ UNCHANGED <<emission_factors, lca_assessments, assessment_materials, nextId>>

(***************************************************************************)
(* GET and DELETE /api/lca/assessments/:id.  The :id of the URL is compared *)
(* with the INTEGER column id, so a decimal id selects the row of that     *)
(* number; ids are modelled as the numbers.                                *)
(***************************************************************************)
\* SELECT * FROM lca_assessments WHERE id = ?
assessmentById(assessments, id) == SelectSeq(assessments, LAMBDA a : a.id = id)

\* SELECT * FROM assessment_materials WHERE assessment_id = ?
materialsOf(materials, id) == SelectSeq(materials, LAMBDA m : m.assessment_id = id)

\* DELETE FROM assessment_materials WHERE assessment_id = ?
deleteMaterials(materials, id) == SelectSeq(materials, LAMBDA m : m.assessment_id # id)

\* DELETE FROM lca_assessments WHERE id = ?
deleteAssessment(assessments, id) == SelectSeq(assessments, LAMBDA a : a.id # id)

\* what GET /assessments/:id answers; fault = 1, 2: that statement throws
getAssessment(assessments, materials, id, fault) ==
    IF fault = 1 THEN [status |-> 500, error |-> "Error fetching assessment"]
    ELSE IF assessmentById(assessments, id) = <<>>
    THEN [status |-> 404, error |-> "Assessment not found"]
    ELSE IF fault = 2 THEN [status |-> 500, error |-> "Error fetching assessment"]
    ELSE [status |-> 200,
          assessment |-> assessmentById(assessments, id)[1],
          materials |-> materialsOf(materials, id)]

GetAssessment(id, fault) ==
    /\ pc = "idle"
    /\ fault \in 0..2
    /\ fault = 2 => assessmentById(lca_assessments, id) # <<>>
    /\ response' = getAssessment(lca_assessments, assessment_materials, id, fault)
    /\ request' = [route |-> "get", id |-> id, fault |-> fault]
    /\ pc' = "responded"
    /\ UNCHANGED <<emission_factors, lca_assessments, assessment_materials, nextId>>

DeleteAssessment_notFound(id, fault) ==
    /\ pc = "idle"
    /\ fault \in 0..2
    /\ assessment_materials' =
          IF fault = 1 THEN assessment_materials
          ELSE deleteMaterials(assessment_materials, id)
    /\ lca_assessments' =
          IF fault = 0 THEN deleteAssessment(lca_assessments, id) ELSE lca_assessments
    /\ response' =
          IF fault # 0
          THEN [status |-> 500, error |-> "Error deleting assessment"]
          ELSE IF assessmentById(lca_assessments, id) = <<>>
          THEN [status |-> 404, error |-> "Assessment not found"]
          ELSE [status |-> 200, message |-> "Assessment deleted successfully"]
    /\ request' = [route |-> "delete", id |-> id, fault |-> fault]
    /\ pc' = "responded"
    /\ UNCHANGED <<emission_factors, nextId>>

\* a DELETE that removes the assessment row first, then its material rows
DeleteAssessment_assessmentFirst(id, fault) ==
    /\ pc = "idle"
    /\ fault \in 0..2
    /\ lca_assessments' =
          IF fault = 1 THEN lca_assessments
          ELSE deleteAssessment(lca_assessments, id)
    /\ assessment_materials' =
          IF fault = 0 THEN deleteMaterials(assessment_materials, id)
          ELSE assessment_materials
    /\ response' =
          IF fault = 0
          THEN [status |-> 200, message |-> "Assessment deleted successfully"]
          ELSE [status |-> 500, error |-> "Error deleting assessment"]
    /\ request' = [route |-> "delete", id |-> id, fault |-> fault]
    /\ pc' = "responded"
    /\ UNCHANGED <<emission_factors, nextId>>

\* DELETE /assessments/:id: the material rows, then the assessment row
DeleteAssessment(id, fault) ==
    /\ pc = "idle"
    /\ fault \in 0..2
    /\ assessment_materials' =
          IF fault = 1 THEN assessment_materials
          ELSE deleteMaterials(assessment_materials, id)
    /\ lca_assessments' =
          IF fault = 0 THEN deleteAssessment(lca_assessments, id) ELSE lca_assessments
    /\ response' =
          IF fault = 0
          THEN [status |-> 200, message |-> "Assessment deleted successfully"]
          ELSE [status |-> 500, error |-> "Error deleting assessment"]
    /\ request' = [route |-> "delete", id |-> id, fault |-> fault]
    /\ pc' = "responded"
    /\ UNCHANGED <<emission_factors, nextId>>

(***************************************************************************)
(* POST /api/data/manual and enrichMaterialData.  Here the numeric fields  *)
(* are JavaScript numbers that may be NaN.                                 *)
(***************************************************************************)
\* String.prototype.trim()
RECURSIVE TrimRight(_)
TrimRight(s) ==
    IF s # <<>> /\ s[Len(s)] = " " THEN TrimRight(SubSeq(s, 1, Len(s) - 1)) ELSE s

trim(s) == TrimRight(SkipSpaces(s))

\* x * f and x * f + c for a number x that may be NaN
Times(x, f) == IF x.nan THEN NaN ELSE Num(x.v * f)
Plus(x, c) == IF x.nan THEN NaN ELSE Num(x.v + c)

missingRequired_typeOnly(material) == material.material_type = <<>>

\* !material.material_type || !material.quantity
missingRequired(material) == material.material_type = <<>> \/ ~Truthy(material.quantity)

\* the record the route builds for a material that passed validation
validated(material) ==
    [material_type |-> trim(material.material_type),
     quantity |-> parseFloat(material.quantity),
     unit |-> IF material.unit = "" THEN "kg" ELSE material.unit,
     energy_consumption |->
         IF Truthy(material.energy_consumption)
         THEN parseFloat(material.energy_consumption) ELSE Num(0),
     transport_distance |->
         IF Truthy(material.transport_distance)
         THEN parseFloat(material.transport_distance) ELSE Num(0)]

\* an enriched material; estimated: the default factors were used
enrichedMaterial(material, emissionFactor, estimated) ==
    [material_type |-> material.material_type,
     quantity |-> material.quantity,
     unit |-> material.unit,
     energy_consumption |-> material.energy_consumption,
     transport_distance |-> material.transport_distance,
     estimated |-> estimated,
     warning |-> IF estimated THEN "No emission factor found" ELSE "",
     error |-> FALSE,
     category |-> emissionFactor.category,
     emission_factor |-> [co2_factor |-> emissionFactor.co2_factor,
                          energy_factor |-> emissionFactor.energy_factor,
                          transport_factor |-> emissionFactor.transport_factor],
     calculated_impacts |->
        [co2_impact |-> Times(material.quantity, emissionFactor.co2_factor),
         energy_impact |->
            Plus(Times(material.quantity, emissionFactor.energy_factor),
                 OrZero(material.energy_consumption) * Milli),
         transport_impact |->
            Times(material.quantity,
                  OrZero(material.transport_distance) * emissionFactor.transport_factor)]]

\* the record pushed by the catch block
failedMaterial(material) ==
    [material_type |-> material.material_type,
     quantity |-> material.quantity,
     unit |-> material.unit,
     energy_consumption |-> material.energy_consumption,
     transport_distance |-> material.transport_distance,
     estimated |-> FALSE,
     warning |-> "Error processing",
     error |-> TRUE]

\* one iteration of the loop, from the results of the two lookups; issued
\* counts the statements run before it
enrichWith(material, fault, issued, exact, like) ==
    IF fault = issued + 1
    THEN [entry |-> failedMaterial(material), issued |-> issued + 1]
    ELSE IF exact # <<>>
    THEN [entry |-> enrichedMaterial(material, exact[1], FALSE), issued |-> issued + 1]
    ELSE IF fault = issued + 2
    THEN [entry |-> failedMaterial(material), issued |-> issued + 2]
    ELSE IF like # <<>>
    THEN [entry |-> enrichedMaterial(material, like[1], FALSE), issued |-> issued + 2]
    ELSE [entry |-> enrichedMaterial(material, unknownFactor, TRUE),
          issued |-> issued + 2]

enrichOne(table, material, fault, issued) ==
    enrichWith(material, fault, issued,
               getExact(table, material.material_type),
               getLike(table, material.material_type))

RECURSIVE enrichLoop(_, _, _, _)
\* a loop that gives up at the first material that fails
enrichPush_abort(table, materials, fault, acc, one) ==
    IF one.entry.error
    THEN [enrichedData |-> Append(acc.enrichedData, one.entry), issued |-> one.issued]
    ELSE enrichLoop(table, Tail(materials), fault,
                    [enrichedData |-> Append(acc.enrichedData, one.entry),
                     issued |-> one.issued])

enrichPush(table, materials, fault, acc, one) ==
    enrichLoop(table, Tail(materials), fault,
               [enrichedData |-> Append(acc.enrichedData, one.entry),
                issued |-> one.issued])

enrichLoop(table, materials, fault, acc) ==
    IF materials = <<>> THEN acc
    ELSE enrichPush(table, materials, fault, acc,
                    enrichOne(table, Head(materials), fault, acc.issued))

\* enrichedData, with the number of statements the call issued
enrichMaterialData(table, materials, fault) ==
    enrichLoop(table, materials, fault, [enrichedData |-> <<>>, issued |-> 0])

manualResponse(enrichedData) ==
    [status |-> 200, message |-> "Data processed successfully",
     data |-> enrichedData, total_records |-> Len(enrichedData)]

\* what the handler answers
manual(table, body, fault) ==
    IF ~isArray(body) \/ body.materials = <<>>
    THEN [status |-> 400, error |-> "Materials array is required"]
    ELSE IF \E i \in DOMAIN body.materials : missingRequired(body.materials[i])
    THEN [status |-> 400, error |-> "Material type and quantity are required"]
    ELSE manualResponse(
            enrichMaterialData(table,
                [i \in DOMAIN body.materials |-> validated(body.materials[i])],
                fault).enrichedData)

\* the number of statements the manual route issues when none fails
manualStatements(table, body) ==
    IF \E i \in DOMAIN body.materials : missingRequired(body.materials[i]) THEN 0
    ELSE enrichMaterialData(table,
            [i \in DOMAIN body.materials |-> validated(body.materials[i])], 0).issued

Manual(body, fault) ==
    /\ pc = "idle"
    /\ fault \in 0..manualStatements(emission_factors, body)
    /\ response' = manual(emission_factors, body, fault)
    /\ request' = [route |-> "manual", body |-> body, fault |-> fault]
    /\ pc' = "responded"
    /\ UNCHANGED <<emission_factors, lca_assessments, assessment_materials, nextId>>

(***************************************************************************)
(* Inputs.                                                                 *)
(***************************************************************************)
Material(type, quantity, unit, energy, distance) ==
    [material_type |-> type, quantity |-> quantity, unit |-> unit,
     energy_consumption |-> energy, transport_distance |-> distance]

SampleMaterials == <<
    \* Steel, 100 kg
    Material(<<"S","t","e","e","l">>, RNum(100), "kg", RNum(0), RNum(0)),
    \* wood, "6001" with no unit, carried 51 km: a negative CO2 factor
    Material(<<"w","o","o","d">>, RStr(<<"6","0","0","1">>), "", RUndef, RNum(51)),
    \* Unobtainium, 10 kg carried 20 km: in no row of the table
    Material(<<"U","n","o","b","t","a","i","n","i","u","m">>, RNum(10), "kg",
             RUndef, RNum(20)),
    \* PET, "10 kg" carried 20 km: part of the table's "PET Plastic"
    Material(<<"P","E","T">>, RStr(<<"1","0"," ","k","g">>), "kg", RUndef,
             RStr(<<"2","0">>)),
    \* Stainless Steel, 12000 kg: contains the table's "Steel"
    Material(<<"S","t","a","i","n","l","e","s","s"," ","S","t","e","e","l">>,
             RNum(12000), "kg", RNum(5), RUndef),
    \* STEEL with the quantity "abc"
    Material(<<"S","T","E","E","L">>, RStr(<<"a","b","c">>), "kg", RUndef, RNum(30)),
    \* steel, 100 kg: the impacts of the first sample under another name
    Material(<<"s","t","e","e","l">>, RNum(100), "kg", RUndef, RUndef) >>

SavedSamples == <<SampleMaterials[1], SampleMaterials[3]>>

\* the manual form also sends records without a quantity or without a type
ManualSamples ==
    SampleMaterials
    \o << Material(<<"G","l","a","s","s">>, RUndef, "kg", RNum(2), RNum(10)),
          Material(<<>>, RNum(7), "kg", RUndef, RUndef) >>

ListsUpTo(samples, n) == UNION {[1..k -> Range(samples)] : k \in 0..n}

AssessmentNames == {"LCA-1"}

\* what a body can carry under the key materials besides an array
NonArrays == {"undefined", "string"}

CalculateBodies ==
    [materialsKind : {"array"}, materials : ListsUpTo(SampleMaterials, MaxMaterials),
     assessment_name : {""}]
    \cup [materialsKind : {"array"},
          materials : ListsUpTo(SavedSamples, MaxSavedMaterials),
          assessment_name : AssessmentNames]
    \cup [materialsKind : NonArrays, materials : {<<>>},
          assessment_name : {""} \cup AssessmentNames]

ManualBodies ==
    [materialsKind : {"array"}, materials : ListsUpTo(ManualSamples, MaxMaterials)]
    \cup [materialsKind : NonArrays, materials : {<<>>}]

MaxStatements == 2 * MaxMaterials + 1

\* the ids a client asks for: every id the store can hand out and one more
AssessmentIds == 1..(MaxAssessments + 1)

Init ==
    /\ emission_factors = defaultFactors
    /\ lca_assessments = <<>>
    /\ assessment_materials = <<>>
    /\ nextId = 1
    /\ pc = "idle"
    /\ request = [route |-> "none"]
    /\ response = [status |-> 0]

Next ==
    \/ \E body \in CalculateBodies : \E fault \in 0..MaxStatements : Calculate(body, fault)
    \/ \E body \in ManualBodies : \E fault \in 0..MaxStatements : Manual(body, fault)
    \/ \E id \in AssessmentIds : \E fault \in 0..2 : GetAssessment(id, fault)
    \/ \E id \in AssessmentIds : \E fault \in 0..2 : DeleteAssessment(id, fault)
    \/ ClientReceive

Spec == Init /\ [][Next]_vars

(***************************************************************************)
(* The AI routes: POST /api/ai/process and POST /api/ai/recommendations,   *)
(* with the rule-based fallbacks basicDataProcessing and                   *)
(* generateBasicRecommendations.  The external AI processor is an input:   *)
(* its call succeeds, answers 2xx without the expected key, or fails.      *)
(* A material_type is here a JSON value like the numeric fields; a JSON    *)
(* number with decimals is given in thousandths.                           *)
(***************************************************************************)
RMilli(n) == [k |-> "milli", n |-> n, s |-> <<>>]

\* Number(s) of a string, as the comparison operators coerce it: blanks
\* trimmed, "" is 0, an optional sign and digits only, else NaN
toNumberStr(s) ==
    LET t == trim(s)
        neg == t # <<>> /\ Head(t) = "-"
        body == IF neg THEN Tail(t) ELSE t
    IN  IF t = <<>> THEN Num(0)
        ELSE IF body # <<>> /\ LeadingDigits(body) = body
        THEN Num(IF neg THEN 0 - DigitsValue(body, 0) ELSE DigitsValue(body, 0))
        ELSE NaN

\* raw > bound for a whole-number bound
GreaterThan(raw, bound) ==
    CASE raw.k = "num" -> raw.n > bound
      [] raw.k = "milli" -> raw.n > bound * Milli
      [] raw.k = "str" -> ~toNumberStr(raw.s).nan /\ toNumberStr(raw.s).v > bound
      [] OTHER -> FALSE

\* x.toLowerCase().includes(key), for a string x
includes(type, key) == Contains(type, key)

\* the entries of energyEstimates in insertion order, values in thousandths
energyEstimates == <<
    [key |-> <<"s", "t", "e", "e", "l">>, value |-> 24 * Milli],
    [key |-> <<"a", "l", "u", "m", "i", "n", "u", "m">>, value |-> 154 * Milli],
    [key |-> <<"p", "l", "a", "s", "t", "i", "c">>, value |-> 76 * Milli],
    [key |-> <<"g", "l", "a", "s", "s">>, value |-> 15 * Milli],
    [key |-> <<"c", "o", "n", "c", "r", "e", "t", "e">>, value |-> Milli],
    [key |-> <<"w", "o", "o", "d">>, value |-> 2500],
    [key |-> <<"p", "a", "p", "e", "r">>, value |-> 20 * Milli] >>

\* an estimate taken from the last keyword that matches
estimateEnergyConsumption_lastKey(materialType) ==
    LET hits == {i \in DOMAIN energyEstimates : includes(materialType, energyEstimates[i].key)}
    IN  IF hits = {} THEN 10 * Milli
        ELSE energyEstimates[CHOOSE i \in hits : \A j \in hits : i >= j].value

\* estimateEnergyConsumption of a string material type, in thousandths
estimateEnergyConsumption(materialType) ==
    LET hits == {i \in DOMAIN energyEstimates : includes(materialType, energyEstimates[i].key)}
    IN  IF hits = {} THEN 10 * Milli
        ELSE energyEstimates[CHOOSE i \in hits : \A j \in hits : i <= j].value

\* the keyword groups of categorizeMaterial in the order they are tested
categoryKeywords == <<
    [category |-> "Metals", keys |-> {<<"s", "t", "e", "e", "l">>, <<"a", "l", "u", "m", "i", "n", "u", "m">>, <<"c", "o", "p", "p", "e", "r">>, <<"i", "r", "o", "n">>}],
    [category |-> "Plastics", keys |-> {<<"p", "l", "a", "s", "t", "i", "c">>, <<"p", "o", "l", "y", "m", "e", "r">>, <<"p", "e", "t">>, <<"h", "d", "p", "e">>}],
    [category |-> "Construction", keys |-> {<<"c", "o", "n", "c", "r", "e", "t", "e">>, <<"c", "e", "m", "e", "n", "t">>, <<"b", "r", "i", "c", "k">>, <<"s", "t", "o", "n", "e">>}],
    [category |-> "Glass", keys |-> {<<"g", "l", "a", "s", "s">>}],
    [category |-> "Construction", keys |-> {<<"w", "o", "o", "d">>, <<"t", "i", "m", "b", "e", "r">>}],
    [category |-> "Paper", keys |-> {<<"p", "a", "p", "e", "r">>, <<"c", "a", "r", "d", "b", "o", "a", "r", "d">>}],
    [category |-> "Textiles", keys |-> {<<"c", "o", "t", "t", "o", "n">>, <<"p", "o", "l", "y", "e", "s", "t", "e", "r">>, <<"f", "a", "b", "r", "i", "c">>}] >>

\* a categorization that tests wood and timber with the other Construction
\* keywords, ahead of glass
categorizeMaterial_woodFirst(materialType) ==
    LET hits == {i \in DOMAIN categoryKeywords :
                    \E key \in categoryKeywords[i].keys : includes(materialType, key)}
    IN  IF hits = {} THEN "Unknown"
        ELSE IF 5 \in hits /\ \A j \in hits : j >= 4 THEN "Construction"
        ELSE categoryKeywords[CHOOSE i \in hits : \A j \in hits : i <= j].category

\* categorizeMaterial of a string material type
categorizeMaterial(materialType) ==
    LET hits == {i \in DOMAIN categoryKeywords :
                    \E key \in categoryKeywords[i].keys : includes(materialType, key)}
    IN  IF hits = {} THEN "Unknown"
        ELSE categoryKeywords[CHOOSE i \in hits : \A j \in hits : i <= j].category

\* the record basicDataProcessing returns for a material whose type is a
\* string; a flag that is FALSE and a note list that is empty stand for keys
\* the record does not have
processedMaterial(material, noQuantity, noEnergy, noTransport, category) ==
    [material_type |-> material.material_type,
     unit |-> material.unit,
     quantity |-> IF noQuantity THEN RNum(1) ELSE material.quantity,
     energy_consumption |->
         IF noEnergy THEN RMilli(estimateEnergyConsumption(material.material_type.s))
         ELSE material.energy_consumption,
     transport_distance |-> IF noTransport THEN RNum(100) ELSE material.transport_distance,
     ai_imputed |-> noQuantity \/ noEnergy \/ noTransport,
     imputation_note |->
         (IF noQuantity THEN <<"Quantity imputed with default value">> ELSE <<>>)
         \o (IF noEnergy THEN <<" Energy consumption estimated">> ELSE <<>>)
         \o (IF noTransport THEN <<" Transport distance estimated">> ELSE <<>>),
     category |-> category,
     ai_categorized |-> category = "Unknown",
     outlier_flag |-> Truthy(material.quantity) /\ GreaterThan(material.quantity, 10000)]

\* one application of the callback of materials.map
processOne(material) ==
    processedMaterial(material,
        ~Truthy(material.quantity),
        ~Truthy(material.energy_consumption),
        ~Truthy(material.transport_distance),
        categorizeMaterial(material.material_type.s))

\* basicDataProcessing: materialType.toLowerCase() throws a TypeError for a
\* material whose material_type is not a string, and the map is abandoned
basicDataProcessing(materials) ==
    IF \E i \in DOMAIN materials : materials[i].material_type.k # "str"
    THEN [thrown |-> TRUE, data |-> <<>>]
    ELSE [thrown |-> FALSE, data |-> [i \in DOMAIN materials |-> processOne(materials[i])]]

\* what the external call can do
AiOutcomes == {"ok", "malformed", "timeout", "network", "non2xx"}
Unavailable == {"timeout", "network", "non2xx"}

\* response.data.processed_materials of an AI processor that answers: its
\* records, flagged by no one
aiProcessedMaterials(materials) ==
    [i \in DOMAIN materials |->
        [material_type |-> materials[i].material_type, unit |-> materials[i].unit,
         quantity |-> materials[i].quantity,
         energy_consumption |-> materials[i].energy_consumption,
         transport_distance |-> materials[i].transport_distance,
         ai_imputed |-> FALSE, imputation_note |-> <<>>, category |-> "AI",
         ai_categorized |-> FALSE, outlier_flag |-> FALSE]]

\* res.json of the try block; fallback FALSE: the key is not sent
processedResponse(n, processedData) ==
    [status |-> 200, message |-> "Data processed successfully",
     original_count |-> n, processed_count |-> Len(processedData),
     data |-> processedData,
     processing_summary |->
        [missing_data_detected |-> Len(SelectSeq(processedData, LAMBDA m : m.ai_imputed)),
         categories_assigned |-> Len(SelectSeq(processedData, LAMBDA m : m.ai_categorized)),
         outliers_detected |-> Len(SelectSeq(processedData, LAMBDA m : m.outlier_flag))],
     fallback |-> FALSE]

\* res.json of the catch block
fallbackResponse(basicProcessedData) ==
    [status |-> 200,
     message |-> "Data processed with basic methods (AI service unavailable)",
     data |-> basicProcessedData, fallback |-> TRUE]

\* an exception that leaves the async handler: the promise is rejected and
\* nobody handles it.  Depending on the Express and Node versions the client
\* gets no response at all (status 0) or a 500 from the error middleware.
UnhandledOutcomes == {0, 500}
unhandledRejection(outcome) == [status |-> outcome, error |-> "unhandled rejection"]

\* the catch block of the route, given what basicDataProcessing did
processCatch(basic, outcome) ==
    IF basic.thrown THEN unhandledRejection(outcome) ELSE fallbackResponse(basic.data)

\* the route after processDataWithAI failed over to basicDataProcessing
processFallback(n, basic, outcome) ==
    IF basic.thrown THEN processCatch(basic, outcome)
    ELSE processedResponse(n, basic.data)

\* what POST /api/ai/process answers
process(body, ai, outcome) ==
    IF ~isArray(body) \/ body.materials = <<>>
    THEN [status |-> 400, error |-> "Materials array is required"]
    ELSE IF ai = "ok"
    THEN processedResponse(Len(body.materials), aiProcessedMaterials(body.materials))
    ELSE IF ai = "malformed"
    THEN processCatch(basicDataProcessing(body.materials), outcome)
    ELSE processFallback(Len(body.materials), basicDataProcessing(body.materials), outcome)

\* the external requests processDataWithAI sends for a body
processCalls(body) == IF ~isArray(body) \/ body.materials = <<>> THEN 0 ELSE 1

Process(body, ai, outcome) ==
    /\ pc = "idle"
    /\ response' = process(body, ai, outcome)
    /\ request' = [route |-> "process", body |-> body, ai |-> ai,
                   calls |-> processCalls(body)]
    /\ pc' = "responded"
    /\ UNCHANGED <<emission_factors, lca_assessments, assessment_materials, nextId>>

basicRecommendation(type, priority, material) ==
    [type |-> type, priority |-> priority, material |-> material]

\* material_breakdown.reduce((prev, current) =>
\*     (prev.total_impact > current.total_impact) ? prev : current)
RECURSIVE highestImpactMaterial(_, _)
highestImpactMaterial(prev, rest) ==
    IF rest = <<>> THEN prev
    ELSE highestImpactMaterial(
            IF prev.total_impact > Head(rest).total_impact THEN prev ELSE Head(rest),
            Tail(rest))

\* generateBasicRecommendations: the totals are read from the top level of
\* lcaResults; toFixed throws a TypeError for a total that is a string
generateBasicRecommendations(lcaResults) ==
    LET highCO2 == GreaterThan(lcaResults.total_co2_kg, 100)
        highEnergy == GreaterThan(lcaResults.total_energy_mj, 1000)
    IN  IF ~lcaResults.summary.given THEN [thrown |-> FALSE, recommendations |-> <<>>]
        ELSE IF \/ highCO2 /\ lcaResults.total_co2_kg.k = "str"
                \/ highEnergy /\ lcaResults.total_energy_mj.k = "str"
        THEN [thrown |-> TRUE, recommendations |-> <<>>]
        ELSE [thrown |-> FALSE,
              recommendations |->
                (IF highCO2
                 THEN <<basicRecommendation("carbon_reduction", "high", <<>>)>>
                 ELSE <<>>)
                \o (IF highEnergy
                    THEN <<basicRecommendation("energy_efficiency", "medium", <<>>)>>
                    ELSE <<>>)
                \o (IF lcaResults.material_breakdown # <<>>
                    THEN <<basicRecommendation("material_substitution", "medium",
                              highestImpactMaterial(
                                  Head(lcaResults.material_breakdown),
                                  Tail(lcaResults.material_breakdown)).material_type)>>
                    ELSE <<>>)
                \o <<basicRecommendation("general_sustainability", "low", <<>>)>>]

\* response.data.recommendations of an AI processor that answers
aiRecommendations == <<basicRecommendation("ai_insight", "high", <<>>)>>

\* res.json of the try block; confidence_score in hundredths
recommendationsResponse(recommendations) ==
    [status |-> 200, recommendations |-> recommendations,
     confidence_score |-> 85, fallback |-> FALSE]

\* the route given what generateBasicRecommendations did inside
\* generateAIRecommendations; the catch block calls it again and it throws again
recommendFallback(basic, outcome) ==
    IF basic.thrown THEN unhandledRejection(outcome)
    ELSE recommendationsResponse(basic.recommendations)

\* what POST /api/ai/recommendations answers
recommend(body, ai, outcome) ==
    IF ~body.lca_results.given
    THEN [status |-> 400, error |-> "LCA results are required"]
    ELSE IF ai = "ok" THEN recommendationsResponse(aiRecommendations)
    ELSE IF ai = "malformed" THEN recommendationsResponse(<<>>)
    ELSE recommendFallback(generateBasicRecommendations(body.lca_results), outcome)

Recommend(body, ai, outcome) ==
    /\ pc = "idle"
    /\ response' = recommend(body, ai, outcome)
    /\ request' = [route |-> "recommendations", body |-> body, ai |-> ai,
                   calls |-> IF body.lca_results.given THEN 1 ELSE 0]
    /\ pc' = "responded"
    /\ UNCHANGED <<emission_factors, lca_assessments, assessment_materials, nextId>>

ProcessMaterial(type, quantity, energy, distance) ==
    [material_type |-> type, unit |-> "kg", quantity |-> quantity,
     energy_consumption |-> energy, transport_distance |-> distance]

ProcessSamples == <<
    \* complete
    ProcessMaterial(RStr(<<"S", "t", "e", "e", "l">>), RNum(100), RNum(5), RNum(50)),
    \* nothing given but a name no keyword matches
    ProcessMaterial(RStr(<<"R", "e", "s", "i", "n">>), RNum(0), RUndef, RNum(0)),
    \* a negative quantity
    ProcessMaterial(RStr(<<"O", "a", "k", " ", "W", "o", "o", "d">>), RNum(-5), RUndef, RNum(30)),
    \* no material_type, a very large quantity
    ProcessMaterial(RUndef, RNum(20000), RNum(1), RNum(1)),
    \* no quantity
    ProcessMaterial(RStr(<<"G", "l", "a", "s", "s">>), RUndef, RNum(3), RUndef),
    \* a name with keywords of two categories and two energy estimates
    ProcessMaterial(RStr(<<"W", "o", "o", "d", " ", "G", "l", "a", "s", "s">>), RNum(5), RNum(0), RStr(<<>>)),
    \* a name with keywords of three categories, an energy given as "0"
    ProcessMaterial(RStr(<<"C", "o", "t", "t", "o", "n", " ", "P", "a", "p", "e", "r", " ", "B", "r", "i", "c", "k">>), RNum(40), RStr(<<"0">>), RNum(12)),
    \* a named material with a very large quantity, sent as a string
    ProcessMaterial(RStr(<<"I", "r", "o", "n", " ", "O", "r", "e">>), RStr(<<"1", "0", "0", "0", "1">>), RNum(2), RNum(2)) >>

ProcessBodies ==
    [materialsKind : {"array"}, materials : ListsUpTo(ProcessSamples, MaxMaterials)]
    \cup [materialsKind : NonArrays, materials : {<<>>}]

\* lca_results.summary: absent, or an object with the totals of /calculate
NoSummary == [given |-> FALSE, total_co2_kg |-> RUndef, total_energy_mj |-> RUndef]
Summary(co2, energy) == [given |-> TRUE, total_co2_kg |-> co2, total_energy_mj |-> energy]

LcaResults(given, summary, co2, energy, breakdown) ==
    [given |-> given, summary |-> summary, total_co2_kg |-> co2,
     total_energy_mj |-> energy, material_breakdown |-> breakdown]

ImpactOf(type, total) == [material_type |-> type, total_impact |-> total]

LcaResultsSamples == {
    \* no lca_results
    LcaResults(FALSE, NoSummary, RUndef, RUndef, <<>>),
    \* {}
    LcaResults(TRUE, NoSummary, RUndef, RUndef, <<>>),
    \* the response of /calculate: totals under summary, none at the top level
    LcaResults(TRUE, Summary(RMilli(185500), RNum(2400)), RUndef, RUndef,
               <<ImpactOf(<<"S", "t", "e", "e", "l">>, 2585 * Milli), ImpactOf(<<"O", "a", "k", " ", "W", "o", "o", "d">>, 2585 * Milli)>>),
    \* the response of /calculate for a small assessment
    LcaResults(TRUE, Summary(RMilli(1850), RNum(24)), RUndef, RUndef,
               <<ImpactOf(<<"S", "t", "e", "e", "l">>, 25850)>>),
    \* totals at the top level
    LcaResults(TRUE, Summary(RMilli(185500), RNum(2400)), RMilli(185500), RNum(2400),
               <<ImpactOf(<<"S", "t", "e", "e", "l">>, 2585 * Milli)>>),
    \* totals at the top level, as text
    LcaResults(TRUE, Summary(RUndef, RUndef), RStr(<<"1", "8", "5">>), RNum(10), <<>>) }

RecommendBodies == [lca_results : LcaResultsSamples]

NextAI ==
    \/ \E body \in ProcessBodies : \E ai \in AiOutcomes : \E outcome \in UnhandledOutcomes :
          Process(body, ai, outcome)
    \/ \E body \in RecommendBodies : \E ai \in AiOutcomes : \E outcome \in UnhandledOutcomes :
          Recommend(body, ai, outcome)
    \/ ClientReceive

SpecAI == Init /\ [][NextAI]_vars

(***************************************************************************)
(* The scoring functions on their own: calculateEnvironmentalScores        *)
(* applied to totals drawn from a grid that holds every grade boundary     *)
(* and totals beyond every floor.  response keeps the previous result      *)
(* beside the current one.                                                 *)
(***************************************************************************)
\* total CO2 in kg (the one in thousandths: just above 300 kg)
GridCO2 == {0, 300 * Milli, 300 * Milli + 1, 600 * Milli, 900 * Milli,
            1200 * Milli, 50000 * Milli}
\* total energy in MJ
GridEnergy == {0, 2000 * Milli, 400000 * Milli}
\* total materials in kg
GridMaterials == {0, 2500, 90000}

scored(co2, energy, materials) ==
    [co2 |-> co2, energy |-> energy, materials |-> materials,
     scores |-> calculateEnvironmentalScores(co2, energy, materials)]

Score(co2, energy, materials) ==
    /\ request' = [route |-> "scores"]
    /\ response' = [status |-> 0,
                    current |-> scored(co2, energy, materials),
                    previous |-> IF request.route = "scores"
                                 THEN response.current
                                 ELSE scored(co2, energy, materials)]
    /\ UNCHANGED <<emission_factors, lca_assessments, assessment_materials,
                   nextId, pc>>

NextScores ==
    \E co2 \in GridCO2 : \E energy \in GridEnergy : \E materials \in GridMaterials :
        Score(co2, energy, materials)

SpecScores == Init /\ [][NextScores]_vars

(***************************************************************************)
(* initializeDatabase: the three CREATE TABLE IF NOT EXISTS statements,    *)
(* then insertDefaultEmissionFactors.  The store outlives the process, so  *)
(* a run meets whatever rows earlier runs left; fault = k makes the k-th   *)
(* statement of the run throw, which ends the run.                         *)
(***************************************************************************)
CreateStatements == 3

\* SELECT id FROM emission_factors WHERE material_type = ? AND category = ?
existingFactor(table, factor) ==
    {i \in DOMAIN table : /\ table[i].material_type = factor.material_type
                          /\ table[i].category = factor.category}

seedOne_noCheck(acc, factor, fault) ==
    IF acc.thrown THEN acc
    ELSE IF fault = acc.issued + 1 \/ fault = acc.issued + 2
    THEN [table |-> acc.table, issued |-> fault, thrown |-> TRUE]
    ELSE [table |-> Append(acc.table, factor), issued |-> acc.issued + 2,
          thrown |-> FALSE]

\* one iteration of the loop over defaultFactors
seedOne(acc, factor, fault) ==
    IF acc.thrown THEN acc
    ELSE IF fault = acc.issued + 1
    THEN [table |-> acc.table, issued |-> acc.issued + 1, thrown |-> TRUE]
    ELSE IF existingFactor(acc.table, factor) # {}
    THEN [table |-> acc.table, issued |-> acc.issued + 1, thrown |-> FALSE]
    ELSE IF fault = acc.issued + 2
    THEN [table |-> acc.table, issued |-> acc.issued + 2, thrown |-> TRUE]
    ELSE [table |-> Append(acc.table, factor), issued |-> acc.issued + 2,
          thrown |-> FALSE]

RECURSIVE seedLoop(_, _, _)
seedLoop(acc, factors, fault) ==
    IF factors = <<>> THEN acc
    ELSE seedLoop(seedOne(acc, Head(factors), fault), Tail(factors), fault)

insertDefaultEmissionFactors(table, fault) ==
    seedLoop([table |-> table, issued |-> CreateStatements, thrown |-> FALSE],
             defaultFactors, fault)

\* the table a run leaves, the statements it issued, whether it threw
initializeDatabase(table, fault) ==
    IF fault \in 1..CreateStatements
    THEN [table |-> table, issued |-> fault, thrown |-> TRUE]
    ELSE insertDefaultEmissionFactors(table, fault)

\* the process starts: a run that throws ends the process, which is started
\* again; a run that completes lets the server listen
InitializeDatabase(fault) ==
    /\ pc = "starting"
    /\ fault \in 0..initializeDatabase(emission_factors, 0).issued
    /\ emission_factors' = initializeDatabase(emission_factors, fault).table
    /\ request' = [route |-> "init", fault |-> fault, rows |-> Len(emission_factors)]
    /\ response' = [status |-> 0]
    /\ pc' = IF initializeDatabase(emission_factors, fault).thrown
             THEN "starting" ELSE "idle"
    /\ UNCHANGED <<lca_assessments, assessment_materials, nextId>>

\* the server is stopped and started again on the same database file
Restart ==
    /\ pc = "idle"
    /\ pc' = "starting"
    /\ UNCHANGED <<emission_factors, lca_assessments, assessment_materials, nextId,
                   request, response>>

\* a database file that does not exist yet
InitSeed ==
    /\ emission_factors = <<>>
    /\ lca_assessments = <<>>
    /\ assessment_materials = <<>>
    /\ nextId = 1
    /\ pc = "starting"
    /\ request = [route |-> "none"]
    /\ response = [status |-> 0]

NextSeed ==
    \/ \E fault \in 0..(CreateStatements + 2 * Len(defaultFactors)) :
          InitializeDatabase(fault)
    \/ Restart

SpecSeed == InitSeed /\ [][NextSeed]_vars

(***************************************************************************)
(* Properties.                                                             *)
(***************************************************************************)
\* a calculate request has been answered with a result
CalcDone == pc = "responded" /\ request.route = "calculate" /\ response.status = 200

\* a manual-entry request has been answered with enriched data
ManualDone == pc = "responded" /\ request.route = "manual" /\ response.status = 200

\* the number of elements of s that satisfy Test
Count(s, Test(_)) == Cardinality({i \in DOMAIN s : Test(s[i])})

\* parseFloat(x) || 0 of a numeric field, as a whole number
Coerced(raw) == OrZero(parseFloat(raw))

\* C1: for every non-empty materials list sent to calculate, material_breakdown
\* has the length of the input and its i-th entry is the i-th input material.
C1_OrderPreserved ==
    CalcDone =>
        /\ Len(response.material_breakdown) = Len(request.body.materials)
        /\ \A i \in DOMAIN request.body.materials :
              response.material_breakdown[i].material_type
                  = request.body.materials[i].material_type

\* the factors the calculate route resolves for a material type: the row that
\* equals it ignoring case, else the defaults
ResolvedFactor(type) ==
    IF \E i \in DOMAIN emission_factors :
          Lower(emission_factors[i].material_type) = Lower(type)
    THEN emission_factors[CHOOSE i \in DOMAIN emission_factors :
            Lower(emission_factors[i].material_type) = Lower(type)]
    ELSE unknownFactor

\* entry e is the MaterialImpact of input material m by the formulas of the claim
IsImpactOf(e, m) ==
    LET f == ResolvedFactor(m.material_type)
    IN  /\ e.material_type = m.material_type
        /\ e.category = f.category
        /\ e.quantity = Coerced(m.quantity)
        /\ e.co2_impact = e.quantity * f.co2_factor
        /\ e.energy_impact = e.quantity * f.energy_factor
                                + Coerced(m.energy_consumption) * Milli
        /\ e.transport_impact
              = Coerced(m.transport_distance) * f.transport_factor * e.quantity
        /\ e.total_impact = e.co2_impact + e.energy_impact + e.transport_impact

\* C2: every material of a calculate request has its MaterialImpact in the
\* result, with co2_impact = quantity * co2_factor, energy_impact = quantity *
\* energy_factor + energy_consumption, transport_impact = transport_distance *
\* transport_factor * quantity and total_impact their sum, under the factors
\* resolved for its type; 100 kg of Steel give 185, 2400 and category Metals.
C2_ImpactFormulas ==
    CalcDone =>
        /\ \E p \in Permutations(DOMAIN request.body.materials) :
              \A i \in DOMAIN request.body.materials :
                  IsImpactOf(response.material_breakdown[p[i]], request.body.materials[i])
        /\ request.body.materials = <<SampleMaterials[1]>> =>
              /\ response.material_breakdown[1].co2_impact = 185 * Milli
              /\ response.material_breakdown[1].energy_impact = 2400 * Milli
              /\ response.material_breakdown[1].transport_impact = 0
              /\ response.material_breakdown[1].category = "Metals"

\* two materials, one of them Steel and one with an energy add-on
C2_Witness ==
    /\ CalcDone
    /\ Len(request.body.materials) = 2
    /\ \E i \in DOMAIN request.body.materials :
          request.body.materials[i] = SampleMaterials[1]
    /\ \E i \in DOMAIN request.body.materials :
          Coerced(request.body.materials[i].energy_consumption) > 0

RECURSIVE SumCO2(_)
SumCO2(ms) ==
    IF ms = <<>> THEN 0
    ELSE Head(ms).co2_impact + Head(ms).transport_impact \div 10 + SumCO2(Tail(ms))

RECURSIVE SumEnergyImpact(_)
SumEnergyImpact(ms) ==
    IF ms = <<>> THEN 0 ELSE Head(ms).energy_impact + SumEnergyImpact(Tail(ms))

RECURSIVE SumQuantity(_)
SumQuantity(ms) == IF ms = <<>> THEN 0 ELSE Head(ms).quantity + SumQuantity(Tail(ms))

\* r is x (both in thousandths) rounded to 2 decimals
IsRounded2(r, x) == r % 10 = 0 /\ r - x <= 5 /\ x - r <= 5

\* C3: total_co2 is the sum of co2_impact + 0.1 * transport_impact over all
\* materials, total_energy the sum of energy_impact, total_materials the sum
\* of quantity; the summary reports each rounded to 2 decimals (and a saved
\* assessment stores the unrounded totals).
C3_TotalsAreSums ==
    CalcDone =>
        /\ IsRounded2(response.summary.total_co2_kg, SumCO2(response.material_breakdown))
        /\ IsRounded2(response.summary.total_energy_mj,
                      SumEnergyImpact(response.material_breakdown))
        /\ IsRounded2(response.summary.total_materials_kg,
                      SumQuantity(response.material_breakdown) * Milli)
        /\ \A i \in DOMAIN lca_assessments :
              lca_assessments[i].id = response.assessment_id =>
                  /\ lca_assessments[i].total_co2 = SumCO2(response.material_breakdown)
                  /\ lca_assessments[i].total_energy
                        = SumEnergyImpact(response.material_breakdown)
                  /\ lca_assessments[i].total_materials
                        = SumQuantity(response.material_breakdown)

\* two materials with transport, a total CO2 with a third decimal
C3_Witness ==
    /\ CalcDone
    /\ Len(response.material_breakdown) = 2
    /\ \A i \in DOMAIN response.material_breakdown :
          response.material_breakdown[i].transport_impact > 0
    /\ SumCO2(response.material_breakdown) % 10 # 0

\* a saved assessment whose material carries transport
C3_WitnessSaved ==
    /\ CalcDone
    /\ response.assessment_id # NoId
    /\ response.material_breakdown[1].transport_impact > 0

\* row's material_type contains type or is contained by it, ignoring case
SubstringMatch(row, type) ==
    Contains(row.material_type, type) \/ Contains(type, row.material_type)

\* the three-stage resolution of the claim
ThreeStageFactor(type) ==
    LET exact == {i \in DOMAIN emission_factors :
                    Lower(emission_factors[i].material_type) = Lower(type)}
        partial == {i \in DOMAIN emission_factors :
                      SubstringMatch(emission_factors[i], type)}
    IN  IF exact # {} THEN emission_factors[CHOOSE i \in exact : TRUE]
        ELSE IF partial # {}
        THEN emission_factors[CHOOSE i \in partial : \A j \in partial :
                i = j \/ StrLess(emission_factors[i].material_type,
                                 emission_factors[j].material_type)]
        ELSE unknownFactor

\* C4: both callers resolve the factor of a material by (a) a case-insensitive
\* exact match, (b) else a case-insensitive substring match in either
\* direction, the lexicographically first, (c) else the hardcoded defaults.
C4_ThreeStageLookup ==
    /\ CalcDone =>
          \A i \in DOMAIN response.material_breakdown :
              LET e == response.material_breakdown[i]
                  f == ThreeStageFactor(e.material_type)
              IN  e.category = f.category /\ e.co2_impact = e.quantity * f.co2_factor
    /\ ManualDone =>
          \A i \in DOMAIN response.data :
              LET d == response.data[i]
                  f == ThreeStageFactor(d.material_type)
              IN  ~d.error =>
                      /\ d.category = f.category
                      /\ d.emission_factor.co2_factor = f.co2_factor
                      /\ d.emission_factor.energy_factor = f.energy_factor
                      /\ d.emission_factor.transport_factor = f.transport_factor

\* some row of the table equals type, ignoring case
InTable(type) ==
    \E i \in DOMAIN emission_factors :
        Lower(emission_factors[i].material_type) = Lower(type)

\* the lookup warnings of the response that name type
UnknownWarnings(type) ==
    Count(response.warnings,
          LAMBDA w : w.text = "Unknown material" /\ w.material_type = type)

\* C5: in a calculate request a material whose type is in no row of the table
\* is not an error: its entry has category Unknown and co2_impact = quantity *
\* 1.0, and the warnings name its type once per such material; a material that
\* is found gets no lookup warning.
C5_UnknownFallback ==
    /\ (pc = "responded" /\ request.route = "calculate" /\ request.fault = 0
          /\ request.body.materials # <<>>) => response.status = 200
    /\ CalcDone =>
          /\ \A i \in DOMAIN request.body.materials :
                LET type == request.body.materials[i].material_type
                IN  UnknownWarnings(type)
                      = IF InTable(type)
                        THEN 0
                        ELSE Count(request.body.materials,
                                   LAMBDA m : m.material_type = type)
          /\ Count(response.warnings, LAMBDA w : w.text = "Unknown material")
                = Count(request.body.materials, LAMBDA m : ~InTable(m.material_type))
          /\ \A i \in DOMAIN response.material_breakdown :
                LET e == response.material_breakdown[i]
                IN  ~InTable(e.material_type) =>
                        e.category = "Unknown" /\ e.co2_impact = e.quantity * Milli

\* Unobtainium beside a material of the table: one warning
C5_Witness ==
    /\ CalcDone
    /\ Len(request.body.materials) = 2
    /\ \E i \in DOMAIN request.body.materials :
          request.body.materials[i] = SampleMaterials[3]
    /\ \E i \in DOMAIN request.body.materials :
          InTable(request.body.materials[i].material_type)
    /\ Len(response.warnings) = 1

\* C6: in the calculate route and in enrichMaterialData a missing or
\* non-numeric quantity, energy_consumption or transport_distance counts as 0
\* in the impact arithmetic, so every computed impact is a number.
C6_CoercedToZero ==
    /\ CalcDone =>
          \E p \in Permutations(DOMAIN request.body.materials) :
              \A i \in DOMAIN request.body.materials :
                  IsImpactOf(response.material_breakdown[p[i]], request.body.materials[i])
    /\ ManualDone =>
          \A i \in DOMAIN response.data :
              LET d == response.data[i]
                  m == request.body.materials[i]
              IN  ~d.error =>
                      /\ ~d.calculated_impacts.co2_impact.nan
                      /\ ~d.calculated_impacts.energy_impact.nan
                      /\ ~d.calculated_impacts.transport_impact.nan
                      /\ d.calculated_impacts.co2_impact.v
                            = Coerced(m.quantity) * d.emission_factor.co2_factor
                      /\ d.calculated_impacts.energy_impact.v
                            = Coerced(m.quantity) * d.emission_factor.energy_factor
                                + Coerced(m.energy_consumption) * Milli
                      /\ d.calculated_impacts.transport_impact.v
                            = Coerced(m.transport_distance)
                                * d.emission_factor.transport_factor * Coerced(m.quantity)

\* C7: over the seeded table each of scores.overall, scores.co2, scores.energy
\* and scores.materials of a calculate result is an integer from 0 to 100.
C7_ScoresInRange ==
    CalcDone =>
        /\ response.scores.overall \in 0..100
        /\ response.scores.co2 \in 0..100
        /\ response.scores.energy \in 0..100
        /\ response.scores.materials \in 0..100

\* calculateEnvironmentalScores has been applied
Scored == request.route = "scores"

\* C8: for nonnegative totals, however large, co2Score, energyScore,
\* materialScore and the overall score are >= 0 (and so are the rounded ones).
C8_NonNegativeFloor ==
    Scored =>
        LET t == response.current
        IN  (t.co2 >= 0 /\ t.energy >= 0 /\ t.materials >= 0) =>
                /\ co2Score(t.co2) >= 0
                /\ energyScore(t.energy) >= 0
                /\ materialScore(t.materials) >= 0
                /\ overallScore(t.co2, t.energy, t.materials) >= 0
                /\ t.scores.co2 >= 0 /\ t.scores.energy >= 0
                /\ t.scores.materials >= 0 /\ t.scores.overall >= 0

\* totals beyond all three floors: 100 - x / d is negative for each
C8_Witness ==
    /\ Scored
    /\ response.current.co2 > 1000 * Milli
    /\ response.current.energy > 10000 * Milli
    /\ response.current.materials > 5000
    /\ response.current.scores.overall = 0

\* the grade bands of the claim, on an unrounded score
GradeBand(score) ==
    CASE score >= 90 * ScoreScale -> "A+"
      [] score < 90 * ScoreScale /\ score >= 80 * ScoreScale -> "A"
      [] score < 80 * ScoreScale /\ score >= 70 * ScoreScale -> "B"
      [] score < 70 * ScoreScale /\ score >= 60 * ScoreScale -> "C"
      [] score < 60 * ScoreScale /\ score >= 50 * ScoreScale -> "D"
      [] OTHER -> "F"

GradeRank(grade) ==
    CASE grade = "F" -> 0 [] grade = "D" -> 1 [] grade = "C" -> 2
      [] grade = "B" -> 3 [] grade = "A" -> 4 [] grade = "A+" -> 5

Overall(t) == overallScore(t.co2, t.energy, t.materials)

\* C9: the grade is decided by the unrounded overall score with inclusive
\* lower bounds 90, 80, 70, 60, 50; totals 0, 0, 0 give overall 100 and A+; a
\* higher overall score never gets a worse grade.
C9_GradeBands ==
    Scored =>
        /\ response.current.scores.grade = GradeBand(Overall(response.current))
        /\ (response.current.co2 = 0 /\ response.current.energy = 0
              /\ response.current.materials = 0) =>
                (response.current.scores.overall = 100
                   /\ response.current.scores.grade = "A+")
        /\ Overall(response.previous) < Overall(response.current) =>
              GradeRank(response.previous.scores.grade)
                  <= GradeRank(response.current.scores.grade)

\* an overall score of exactly 90 graded A+ after one just below it, which
\* rounds to 90 as well and was graded A
C9_Witness ==
    /\ Scored
    /\ Overall(response.current) = 90 * ScoreScale
    /\ response.current.scores.grade = "A+"
    /\ Overall(response.previous) < 90 * ScoreScale
    /\ response.previous.scores.overall = 90
    /\ response.previous.scores.grade = "A"

\* every lower bound is hit exactly
C9_WitnessBoundaries ==
    /\ Scored
    /\ Overall(response.current) \in {80 * ScoreScale, 70 * ScoreScale,
                                       60 * ScoreScale, 50 * ScoreScale}

\* C10: the recommendations of a calculate result are non-empty, hold exactly
\* one recommendation of type general, and it is the last element.
C10_GeneralLast ==
    CalcDone =>
        /\ Len(response.recommendations) >= 1
        /\ Count(response.recommendations, LAMBDA r : r.type = "general") = 1
        /\ response.recommendations[Len(response.recommendations)].type = "general"

\* all four threshold rules fired before it
C10_Witness ==
    /\ CalcDone
    /\ Len(response.recommendations) = 5
    /\ response.recommendations[5].type = "general"

\* a request of the given route has just been answered by this step
Answers(route) == pc' = "responded" /\ request'.route = route

\* type and priority of a recommendation
Rule(type, priority) == [type |-> type, priority |-> priority]

\* the rules of the claim whose conditions hold for a result, in the claim's order
FiringRules(materialBreakdown, categoryBreakdown) ==
    (IF \E i \in DOMAIN materialBreakdown :
            /\ materialBreakdown[i].total_impact > 100 * Milli
            /\ \A j \in DOMAIN materialBreakdown :
                  materialBreakdown[j].total_impact <= materialBreakdown[i].total_impact
     THEN <<Rule("high_impact", "high")>> ELSE <<>>)
    \o (IF \E i \in DOMAIN categoryBreakdown :
              /\ categoryBreakdown[i].co2 > 50 * Milli
              /\ \A j \in DOMAIN categoryBreakdown :
                    categoryBreakdown[j].co2 <= categoryBreakdown[i].co2
        THEN <<Rule("category_optimization", "medium")>> ELSE <<>>)
    \o (IF SumEnergyImpact(materialBreakdown) > 1000 * Milli
        THEN <<Rule("energy_efficiency", "medium")>> ELSE <<>>)
    \o (IF \E i \in DOMAIN materialBreakdown :
              materialBreakdown[i].transport_impact > 10 * Milli
        THEN <<Rule("transport_optimization", "low")>> ELSE <<>>)
    \o <<Rule("general", "low")>>

\* C11: the recommendations of a calculate result are exactly the rules among
\* high_impact (highest total_impact > 100), category_optimization (largest
\* category CO2 > 50), energy_efficiency (summed energy_impact > 1000),
\* transport_optimization (some transport_impact > 10, reporting how many) and
\* general whose conditions hold, in that order, with the priorities high,
\* medium, medium, low, low: every matching rule fires.
C11_AllRulesFire ==
    CalcDone =>
        /\ [i \in DOMAIN response.recommendations |->
              Rule(response.recommendations[i].type,
                   response.recommendations[i].priority)]
              = FiringRules(response.material_breakdown, response.category_breakdown)
        /\ \A i \in DOMAIN response.recommendations :
              response.recommendations[i].type = "transport_optimization" =>
                  response.recommendations[i].amount
                      = Count(response.material_breakdown,
                              LAMBDA m : m.transport_impact > 10 * Milli)

\* the category rule does not match (negative category CO2) while the rules
\* before and after it do
C11_Witness ==
    /\ CalcDone
    /\ Len(response.recommendations) = 4
    /\ response.recommendations[1].type = "high_impact"
    /\ response.recommendations[2].type = "energy_efficiency"
    /\ response.recommendations[3].type = "transport_optimization"

\* C12: a calculate request without an assessment_name (absent or empty) writes
\* no assessment row and no material row, leaves the store as it was, and a
\* result it returns has assessment_id null.
C12_NoNameNoRows ==
    [][(Answers("calculate") /\ request'.body.assessment_name = "") =>
          /\ lca_assessments' = lca_assessments
          /\ assessment_materials' = assessment_materials
          /\ nextId' = nextId
          /\ response'.status = 200 => response'.assessment_id = NoId]_vars

\* an unnamed calculation answered while the store holds a saved assessment
C12_Witness ==
    /\ CalcDone
    /\ request.body.assessment_name = ""
    /\ response.assessment_id = NoId
    /\ lca_assessments # <<>>
    /\ assessment_materials # <<>>

\* the statement of a named request that fails is one of the inserts
PersistenceFailed ==
    /\ pc = "responded" /\ request.route = "calculate"
    /\ isArray(request.body) /\ request.body.materials # <<>>
    /\ request.body.assessment_name # ""
    /\ request.fault > Len(request.body.materials)

\* C13: when the assessment insert or any material-row insert of a named
\* calculation fails, the request still answers 200 with the result,
\* assessment_id is null and a warning is appended to warnings.
C13_PersistenceFailure ==
    PersistenceFailed =>
        /\ response.status = 200
        /\ response.assessment_id = NoId
        /\ Len(response.warnings) >= 1
        /\ response.warnings[Len(response.warnings)].text = "Assessment not saved"

\* C14: after a named calculation either the assessment row and one material
\* row per input material were written, or nothing was: a failure part-way
\* leaves no assessment row and no material row behind.
C14_AllOrNothing ==
    [][(Answers("calculate") /\ request'.body.assessment_name # "") =>
          \/ /\ lca_assessments' = lca_assessments
             /\ assessment_materials' = assessment_materials
          \/ /\ Len(lca_assessments') = Len(lca_assessments) + 1
             /\ SubSeq(lca_assessments', 1, Len(lca_assessments)) = lca_assessments
             /\ Len(assessment_materials')
                   = Len(assessment_materials) + Len(request'.body.materials)
             /\ Len(materialsOf(assessment_materials',
                                lca_assessments'[Len(lca_assessments')].id))
                   = Len(request'.body.materials)]_vars

\* C15: a DELETE of an id that has no assessment (never created or already
\* deleted) answers 200, not 404, and every DELETE leaves the other
\* assessments and their material rows as they were.
C15_DeleteIdempotent ==
    [][(Answers("delete") /\ request'.fault = 0) =>
          /\ response'.status = 200
          /\ deleteAssessment(lca_assessments', request'.id)
                = deleteAssessment(lca_assessments, request'.id)
          /\ deleteMaterials(assessment_materials', request'.id)
                = deleteMaterials(assessment_materials, request'.id)
          /\ assessmentById(lca_assessments, request'.id) = <<>> =>
                /\ lca_assessments' = lca_assessments
                /\ assessment_materials' = assessment_materials]_vars

\* a DELETE of an id the store never handed out, answered 200 while another
\* assessment and its material row are still there
C15_Witness ==
    /\ pc = "responded" /\ request.route = "delete" /\ request.fault = 0
    /\ request.id >= nextId
    /\ response.status = 200
    /\ lca_assessments # <<>>
    /\ assessment_materials # <<>>

\* C16: a named calculation that returns assessment_id X leaves assessment X
\* with one material row per input material; GET X returns the assessment and
\* its rows while it exists and 404 when it does not; once a DELETE of X has
\* succeeded no row of X remains; and no step changes the rows of an
\* assessment that exists before and after it.
C16_Lifecycle ==
    [][/\ (Answers("calculate") /\ response'.status = 200
             /\ response'.assessment_id # NoId) =>
              /\ Len(assessmentById(lca_assessments', response'.assessment_id)) = 1
              /\ Len(materialsOf(assessment_materials', response'.assessment_id))
                    = Len(request'.body.materials)
       /\ (Answers("get") /\ request'.fault = 0) =>
              IF assessmentById(lca_assessments, request'.id) = <<>>
              THEN response'.status = 404
              ELSE /\ response'.status = 200
                   /\ response'.assessment
                         = assessmentById(lca_assessments, request'.id)[1]
                   /\ response'.materials
                         = materialsOf(assessment_materials, request'.id)
       /\ (Answers("delete") /\ response'.status = 200) =>
              /\ assessmentById(lca_assessments', request'.id) = <<>>
              /\ materialsOf(assessment_materials', request'.id) = <<>>
       /\ \A id \in AssessmentIds :
              (/\ assessmentById(lca_assessments, id) # <<>>
               /\ assessmentById(lca_assessments', id) # <<>>) =>
                  /\ assessmentById(lca_assessments', id)
                        = assessmentById(lca_assessments, id)
                  /\ materialsOf(assessment_materials', id)
                        = materialsOf(assessment_materials, id)]_vars

\* a material of the manual form lacks material_type or quantity
Lacks(material) == material.material_type = <<>> \/ material.quantity.k = "undef"

\* the body of the request fails the validation of its route
Invalid(req) ==
    \/ ~isArray(req.body)
    \/ req.body.materials = <<>>
    \/ /\ req.route = "manual"
       /\ \E i \in DOMAIN req.body.materials : Lacks(req.body.materials[i])

\* C17: a calculate request whose materials is missing, not an array or empty,
\* and a manual-entry request in which some material lacks material_type or
\* quantity, is answered 400 with nothing but the error: no result, no
\* enriched material, and the store is left as it was.
C17_ValidationStopsPipeline ==
    [][((Answers("calculate") \/ Answers("manual")) /\ Invalid(request')) =>
          /\ response'.status = 400
          /\ DOMAIN response' = {"status", "error"}
          /\ lca_assessments' = lca_assessments
          /\ assessment_materials' = assessment_materials
          /\ nextId' = nextId]_vars

\* a manual request whose first material is complete and whose second lacks a
\* required field, refused as a whole
C17_Witness ==
    /\ pc = "responded" /\ request.route = "manual"
    /\ Len(request.body.materials) = 2
    /\ ~Lacks(request.body.materials[1])
    /\ Lacks(request.body.materials[2])
    /\ response.status = 400

\* a named calculate request whose materials is not an array, refused
C17_WitnessCalculate ==
    /\ pc = "responded" /\ request.route = "calculate"
    /\ ~isArray(request.body)
    /\ request.body.assessment_name # ""
    /\ response.status = 400

\* a request of the route passed validation, the external call was made and
\* the AI service was unavailable
AiFailed(route) ==
    /\ pc = "responded" /\ request.route = route
    /\ request.calls = 1
    /\ request.ai \in Unavailable

\* C18: when the AI service is unavailable (timeout, network error, non-success
\* response) during /api/ai/process or /api/ai/recommendations, the response
\* carries the rule-based fallback result and fallback: true, and for
\* recommendations a confidence_score below the 0.85 of an AI answer.  (Stated
\* of the responses that are sent; that one is sent at all is C19.)
C18_FallbackTagged ==
    /\ (AiFailed("process") /\ response.status = 200) =>
          /\ response.data = basicDataProcessing(request.body.materials).data
          /\ response.fallback
    /\ (AiFailed("recommendations") /\ response.status = 200) =>
          /\ response.recommendations
                = generateBasicRecommendations(request.body.lca_results).recommendations
          /\ response.fallback
          /\ response.confidence_score < 85

\* C19: for every /api/ai/process request with a non-empty materials array,
\* whatever fields its records carry, a failure of the external call does not
\* reach the caller: one external request was made, and the caller gets a 200
\* with one processed record per material.
C19_FailureNeverPropagates ==
    (/\ pc = "responded" /\ request.route = "process"
     /\ isArray(request.body) /\ request.body.materials # <<>>
     /\ request.ai \in Unavailable) =>
        /\ request.calls = 1
        /\ response.status = 200
        /\ Len(response.data) = Len(request.body.materials)

\* C20: in fallback processing a material whose quantity is missing, zero or
\* negative gets quantity 1.0 and ai_imputed = true; a material with a
\* quantity > 0 keeps its quantity.
C20_QuantityImputed ==
    (AiFailed("process") /\ response.status = 200) =>
        \A i \in DOMAIN request.body.materials :
            LET m == request.body.materials[i]
                d == response.data[i]
            IN  /\ (m.quantity.k = "undef" \/ (m.quantity.k = "num" /\ m.quantity.n <= 0)) =>
                      d.quantity = RNum(1) /\ d.ai_imputed
                /\ (m.quantity.k = "num" /\ m.quantity.n > 0) =>
                      d.quantity = m.quantity

\* the fields of a calculate result other than assessment_id
ResultOf(r) ==
    [summary |-> r.summary, scores |-> r.scores,
     material_breakdown |-> r.material_breakdown,
     category_breakdown |-> r.category_breakdown,
     recommendations |-> r.recommendations, warnings |-> r.warnings]

\* the same, without the warning a failed save appends
ResultBeforeSave(r, failed) ==
    [ResultOf(r) EXCEPT !.warnings =
        IF failed THEN SubSeq(r.warnings, 1, Len(r.warnings) - 1) ELSE r.warnings]

\* what the materials of a body give on the present store when nothing is
\* saved and no statement fails
Fresh(body) ==
    ResultOf(calculate(emission_factors, NoId,
                       [body EXCEPT !.assessment_name = ""], 0).response)

InputImpact(i) ==
    materialImpact(request.body.materials[i],
                   calcFactor(emission_factors, request.body.materials[i]).factor
                  ).total_impact

\* the first material, in input order, whose total_impact no other exceeds
FirstGreatest ==
    CHOOSE i \in DOMAIN request.body.materials :
        /\ \A j \in DOMAIN request.body.materials : InputImpact(j) <= InputImpact(i)
        /\ \A j \in 1..(i - 1) : InputImpact(j) < InputImpact(i)

\* C22: the high_impact recommendation of a calculate result names the
\* material with the greatest total_impact, and of several materials sharing
\* the greatest total_impact the one that comes first in the input.
C22_TieBreak ==
    CalcDone =>
        /\ \A k \in DOMAIN response.recommendations :
              response.recommendations[k].type = "high_impact" =>
                 response.recommendations[k].material
                    = request.body.materials[FirstGreatest].material_type
        /\ InputImpact(FirstGreatest) > 100 * Milli =>
              \E k \in DOMAIN response.recommendations :
                 response.recommendations[k].type = "high_impact"

\* two materials of different names share the greatest total_impact, which
\* exceeds 100, and the result carries a high_impact recommendation
C22_Witness ==
    /\ CalcDone
    /\ Len(request.body.materials) = 2
    /\ request.body.materials[1].material_type
          # request.body.materials[2].material_type
    /\ InputImpact(1) = InputImpact(2)
    /\ InputImpact(1) > 100 * Milli
    /\ \E k \in DOMAIN response.recommendations :
          response.recommendations[k].type = "high_impact"

\* the materials of the result that fall in category c
InCategory(c) == SelectSeq(response.material_breakdown, LAMBDA m : m.category = c)

RECURSIVE SumCo2Impact(_)
SumCo2Impact(ms) ==
    IF ms = <<>> THEN 0 ELSE Head(ms).co2_impact + SumCo2Impact(Tail(ms))

\* hundredths is co2 / total * 100 rounded to 2 decimals (half away from 0 or
\* towards it): twice the distance is at most one hundredth
IsPercentage(hundredths, co2, total) ==
    LET d == LongDiv(Abs(co2), Abs(total), 4)
        sign == IF (co2 < 0) # (total < 0) THEN 0 - 1 ELSE 1
    IN  \/ hundredths = sign * d.q /\ 2 * d.r <= Abs(total)
        \/ hundredths = sign * (d.q + 1) /\ 2 * d.r >= Abs(total)

\* C23: category_breakdown has one entry per distinct category of the
\* materials; its co2, energy and materials are the sums of co2_impact,
\* energy_impact and quantity over the materials of the category, count is
\* their number (the counts add up to the number of input materials), and
\* percentage is the number co2 / (grand total CO2) * 100 rounded to 2 decimals.
C23_CategoryBreakdown ==
    CalcDone =>
        LET cb == response.category_breakdown
        IN  /\ {cb[i].category : i \in DOMAIN cb}
                  = {response.material_breakdown[j].category :
                        j \in DOMAIN response.material_breakdown}
            /\ \A i, j \in DOMAIN cb : cb[i].category = cb[j].category => i = j
            /\ \A i \in DOMAIN cb :
                  /\ cb[i].co2 = SumCo2Impact(InCategory(cb[i].category))
                  /\ cb[i].energy = SumEnergyImpact(InCategory(cb[i].category))
                  /\ cb[i].materials = SumQuantity(InCategory(cb[i].category))
                  /\ cb[i].count = Len(InCategory(cb[i].category))
                  /\ cb[i].percentage.special = ""
                  /\ SumCO2(response.material_breakdown) # 0
                  /\ IsPercentage(cb[i].percentage.v \div 10, cb[i].co2,
                                  SumCO2(response.material_breakdown))

\* the same for every result whose grand total CO2 is not 0
C23_NonZeroTotal ==
    (CalcDone /\ SumCO2(response.material_breakdown) # 0) => C23_CategoryBreakdown

\* a /process request answered 200 by the rule-based fallback
FallbackProcessed == AiFailed("process") /\ response.status = 200

\* name contains one of the keywords, ignoring case
HasAny(name, keys) == \E key \in keys : Contains(name, key)

\* the category the precedence of the claim gives a name
PrecedenceCategory(name) ==
    IF HasAny(name, {<<"s", "t", "e", "e", "l">>, <<"a", "l", "u", "m", "i", "n", "u", "m">>, <<"c", "o", "p", "p", "e", "r">>, <<"i", "r", "o", "n">>}) THEN "Metals"
    ELSE IF HasAny(name, {<<"p", "l", "a", "s", "t", "i", "c">>, <<"p", "o", "l", "y", "m", "e", "r">>, <<"p", "e", "t">>, <<"h", "d", "p", "e">>}) THEN "Plastics"
    ELSE IF HasAny(name, {<<"c", "o", "n", "c", "r", "e", "t", "e">>, <<"c", "e", "m", "e", "n", "t">>, <<"b", "r", "i", "c", "k">>, <<"s", "t", "o", "n", "e">>}) THEN "Construction"
    ELSE IF HasAny(name, {<<"g", "l", "a", "s", "s">>}) THEN "Glass"
    ELSE IF HasAny(name, {<<"w", "o", "o", "d">>, <<"t", "i", "m", "b", "e", "r">>}) THEN "Construction"
    ELSE IF HasAny(name, {<<"p", "a", "p", "e", "r">>, <<"c", "a", "r", "d", "b", "o", "a", "r", "d">>}) THEN "Paper"
    ELSE IF HasAny(name, {<<"c", "o", "t", "t", "o", "n">>, <<"p", "o", "l", "y", "e", "s", "t", "e", "r">>, <<"f", "a", "b", "r", "i", "c">>}) THEN "Textiles"
    ELSE "Unknown"

\* C24: the fallback gives each material the category of the first group, in
\* the order Metals, Plastics, Construction (concrete, cement, brick, stone),
\* Glass, Construction (wood, timber), Paper, Textiles, one of whose keywords
\* its name contains ignoring case, else Unknown; ai_categorized is true
\* exactly when the category is Unknown.
C24_CategoryPrecedence ==
    FallbackProcessed =>
        \A i \in DOMAIN response.data :
            /\ response.data[i].category
                  = PrecedenceCategory(request.body.materials[i].material_type.s)
            /\ response.data[i].ai_categorized
                  <=> response.data[i].category = "Unknown"

\* the fallback categorized a name with keywords of Glass and of the later
\* Construction group, one with keywords of three groups, and one with none
C24_Witness ==
    /\ FallbackProcessed
    /\ Len(response.data) = 2
    /\ \E i \in 1..2 :
          /\ HasAny(request.body.materials[i].material_type.s, {<<"g", "l", "a", "s", "s">>})
          /\ HasAny(request.body.materials[i].material_type.s, {<<"w", "o", "o", "d">>, <<"t", "i", "m", "b", "e", "r">>})
          /\ response.data[i].category = "Glass"
    /\ \E i \in 1..2 :
          /\ response.data[i].category = "Unknown"
          /\ response.data[i].ai_categorized

\* the fallback categorized a name with keywords of Construction, Paper and
\* Textiles
C24_WitnessThree ==
    /\ FallbackProcessed
    /\ \E i \in DOMAIN response.data :
          /\ HasAny(request.body.materials[i].material_type.s, {<<"p", "a", "p", "e", "r">>, <<"c", "a", "r", "d", "b", "o", "a", "r", "d">>})
          /\ HasAny(request.body.materials[i].material_type.s, {<<"c", "o", "t", "t", "o", "n">>, <<"p", "o", "l", "y", "e", "s", "t", "e", "r">>, <<"f", "a", "b", "r", "i", "c">>})
          /\ response.data[i].category = "Construction"
          /\ ~response.data[i].ai_categorized

\* the estimate of the first keyword of the claim's list that a name contains
FirstKeywordEnergy(name) ==
    IF Contains(name, <<"s", "t", "e", "e", "l">>) THEN 24 * Milli
    ELSE IF Contains(name, <<"a", "l", "u", "m", "i", "n", "u", "m">>) THEN 154 * Milli
    ELSE IF Contains(name, <<"p", "l", "a", "s", "t", "i", "c">>) THEN 76 * Milli
    ELSE IF Contains(name, <<"g", "l", "a", "s", "s">>) THEN 15 * Milli
    ELSE IF Contains(name, <<"c", "o", "n", "c", "r", "e", "t", "e">>) THEN Milli
    ELSE IF Contains(name, <<"w", "o", "o", "d">>) THEN 2500
    ELSE IF Contains(name, <<"p", "a", "p", "e", "r">>) THEN 20 * Milli
    ELSE 10 * Milli

\* the fields of a material the fallback imputes: those with a falsy value
ImputedFields(m) ==
    {f \in {"quantity", "energy_consumption", "transport_distance"} : ~Truthy(m[f])}

\* the note each imputed field leaves
NoteOf(f) ==
    CASE f = "quantity" -> "Quantity imputed with default value"
      [] f = "energy_consumption" -> " Energy consumption estimated"
      [] f = "transport_distance" -> " Transport distance estimated"

\* C25: the fallback replaces a falsy energy_consumption by the estimate of
\* the first keyword among steel, aluminum, plastic, glass, concrete, wood,
\* paper that the name contains (10.0 if none), a falsy transport_distance by
\* 100, and leaves a given value alone; ai_imputed is true exactly when a field
\* was imputed, and imputation_note holds one note per imputed field, each
\* appended to the ones before.
C25_Imputation ==
    FallbackProcessed =>
        \A i \in DOMAIN response.data :
            LET m == request.body.materials[i]
                d == response.data[i]
            IN  /\ d.energy_consumption
                      = IF Truthy(m.energy_consumption) THEN m.energy_consumption
                        ELSE RMilli(FirstKeywordEnergy(m.material_type.s))
                /\ d.transport_distance
                      = IF Truthy(m.transport_distance) THEN m.transport_distance
                        ELSE RNum(100)
                /\ d.ai_imputed <=> ImputedFields(m) # {}
                /\ Len(d.imputation_note) = Cardinality(ImputedFields(m))
                /\ \A f \in ImputedFields(m) :
                      \E k \in DOMAIN d.imputation_note : d.imputation_note[k] = NoteOf(f)

\* the fallback imputed the energy and the transport distance of a material
\* whose name contains two of the keywords, and nothing of another material
C25_Witness ==
    /\ FallbackProcessed
    /\ \E i \in DOMAIN response.data :
          /\ Contains(request.body.materials[i].material_type.s, <<"g", "l", "a", "s", "s">>)
          /\ Contains(request.body.materials[i].material_type.s, <<"w", "o", "o", "d">>)
          /\ ImputedFields(request.body.materials[i])
                = {"energy_consumption", "transport_distance"}
          /\ Len(response.data[i].imputation_note) = 2
    /\ \E i \in DOMAIN response.data :
          /\ ImputedFields(request.body.materials[i]) = {}
          /\ ~response.data[i].ai_imputed

\* the i-th output record is the i-th input record with its fields, flagged
\* as an outlier exactly when the input quantity exceeds 10000
Carries(d, m) ==
    /\ d.material_type = m.material_type
    /\ d.unit = m.unit
    /\ Truthy(m.quantity) => d.quantity = m.quantity
    /\ Truthy(m.energy_consumption) => d.energy_consumption = m.energy_consumption
    /\ Truthy(m.transport_distance) => d.transport_distance = m.transport_distance
    /\ d.outlier_flag <=> GreaterThan(m.quantity, 10000)

\* C26: the fallback never removes or rejects a record: whenever it runs on a
\* non-empty materials array its output has one record per input material, in
\* input order, carrying the fields of the input, and outlier_flag is set
\* exactly for the materials whose input quantity exceeds 10000.
C26_NoRecordRejected ==
    AiFailed("process") =>
        /\ response.status = 200
        /\ Len(response.data) = Len(request.body.materials)
        /\ \A i \in DOMAIN response.data :
              Carries(response.data[i], request.body.materials[i])

\* the same for the arrays whose records all have a string material_type
C26_NamedRecords ==
    (/\ AiFailed("process")
     /\ \A i \in DOMAIN request.body.materials :
           request.body.materials[i].material_type.k = "str") =>
        C26_NoRecordRejected

\* C27: enrichMaterialData never aborts the batch: the enriched list has one
\* entry per validated material, in order; a material whose lookup throws is
\* still emitted, with error: true and a warning, and every other material,
\* the later ones included, is enriched as usual.
C27_EnrichNeverAborts ==
    ManualDone =>
        /\ Len(response.data) = Len(request.body.materials)
        /\ response.total_records = Len(request.body.materials)
        /\ \A i \in DOMAIN response.data :
              /\ response.data[i].material_type
                    = trim(request.body.materials[i].material_type)
              /\ response.data[i].error => response.data[i].warning = "Error processing"
        /\ Cardinality({i \in DOMAIN response.data : response.data[i].error})
              = IF request.fault = 0 THEN 0 ELSE 1

\* the lookup of the first of two materials threw, and the second was enriched
C27_Witness ==
    /\ ManualDone
    /\ Len(response.data) = 2
    /\ response.data[1].error
    /\ ~response.data[2].error
    /\ response.data[2].calculated_impacts.co2_impact.v # 0

\* no two rows of the table share material_type and category
OnePerPair(table) ==
    \A i, j \in DOMAIN table :
        (/\ table[i].material_type = table[j].material_type
         /\ table[i].category = table[j].category) => i = j

\* C28: after any number of initializeDatabase runs, completed or not,
\* emission_factors holds at most one row per (material_type, category);
\* a run adds rows behind the rows it met and alters none of them, a run on a
\* seeded table changes nothing, and a run that completes leaves exactly the
\* default factors.
C28_SeedIdempotent ==
    [][(pc = "starting" /\ request'.route = "init") =>
          /\ OnePerPair(emission_factors')
          /\ Len(emission_factors') >= Len(emission_factors)
          /\ SubSeq(emission_factors', 1, Len(emission_factors)) = emission_factors
          /\ Len(emission_factors) = Len(defaultFactors)
                => emission_factors' = emission_factors
          /\ pc' = "idle" => emission_factors' = defaultFactors]_vars

\* a run that completed on a table that was already seeded
C28_Witness ==
    /\ pc = "idle"
    /\ request.route = "init"
    /\ request.rows = Len(defaultFactors)
    /\ emission_factors = defaultFactors

\* a run that completed on the rows an interrupted run had left
C28_WitnessPartial ==
    /\ pc = "idle"
    /\ request.route = "init"
    /\ request.rows \in 1..(Len(defaultFactors) - 1)
    /\ emission_factors = defaultFactors

\* C29: every assessment_materials row references an assessment that
\* exists: after any sequence of named calculations and deletes, whichever
\* single statement of a request fails, no material row is left whose
\* assessment_id is the id of no lca_assessments row.
C29_ReferentialIntegrity ==
    \A i \in DOMAIN assessment_materials :
        \E j \in DOMAIN lca_assessments :
            lca_assessments[j].id = assessment_materials[i].assessment_id

\* a DELETE whose second statement failed: the assessment is still there
\* without its material rows, next to the rows of another assessment
C29_Witness ==
    /\ pc = "responded" /\ request.route = "delete" /\ request.fault = 2
    /\ assessmentById(lca_assessments, request.id) # <<>>
    /\ materialsOf(assessment_materials, request.id) = <<>>
    /\ assessment_materials # <<>>

\* the recommendations route answered a request by the rule-based fallback
FallbackRecommended == AiFailed("recommendations") /\ response.status = 200

\* lca_results has the shape /calculate answers with: the totals are under
\* summary and not at the top level
CalculateShaped(lcaResults) ==
    /\ lcaResults.summary.given
    /\ lcaResults.summary.total_co2_kg.k # "undef"
    /\ lcaResults.total_co2_kg.k = "undef"
    /\ lcaResults.total_energy_mj.k = "undef"

HasRecommendation(type, priority) ==
    \E k \in DOMAIN response.recommendations :
        /\ response.recommendations[k].type = type
        /\ response.recommendations[k].priority = priority

\* the fallback recommends by the totals it is given
ThresholdsApplied(co2, energy) ==
    /\ GreaterThan(co2, 100) => HasRecommendation("carbon_reduction", "high")
    /\ GreaterThan(energy, 1000) => HasRecommendation("energy_efficiency", "medium")
    /\ response.recommendations # <<>>
    /\ response.recommendations[Len(response.recommendations)].type
          = "general_sustainability"

\* C30: when /api/ai/recommendations falls back to the rule-based generator
\* for an lca_results as /calculate produces it, the result has a
\* high-priority carbon_reduction recommendation whenever the assessment's
\* total CO2 exceeds 100 kg, an energy_efficiency recommendation whenever its
\* total energy exceeds 1000 MJ, and ends with the general sustainability one.
C30_FallbackThresholds ==
    (FallbackRecommended /\ CalculateShaped(request.body.lca_results)) =>
        ThresholdsApplied(request.body.lca_results.summary.total_co2_kg,
                          request.body.lca_results.summary.total_energy_mj)

\* the same for an lca_results that repeats its totals at the top level
C30_TopLevelTotals ==
    (FallbackRecommended /\ request.body.lca_results.summary.given) =>
        ThresholdsApplied(request.body.lca_results.total_co2_kg,
                          request.body.lca_results.total_energy_mj)

====
